---------------------------- MODULE Spec2Model ----------------------------
(***************************************************************************)
(* CA-Automation: the ingestion / classification / reminder pipeline.      *)
(*                                                                         *)
(* The database tables (companies, client_emails, reminders, emails,       *)
(* attachments), the attachment files, the Gmail mailbox seen through the  *)
(* "from:<address> is:unread" query and the wall-clock date are the state. *)
(* Every router handler, service method and scheduler job is one action.   *)
(*                                                                         *)
(* Conventions: a date is a tuple <<year, month, day>>; a NULL date is     *)
(* NoDate, a NULL integer column is NullInt, a NULL string column is       *)
(* NullStr.                                                                *)
(***************************************************************************)
EXTENDS Integers, Sequences, FiniteSets, TLC

VARIABLES
    companies,        \* companies table: id -> [is_active]
    client_emails,    \* client_emails table: set of [email, company_id, is_active]
    reminders,        \* reminders table: id -> row
    next_reminder_id, \* AUTO_INCREMENT of reminders.id
    emails,           \* emails table: id -> row
    next_email_id,    \* AUTO_INCREMENT of emails.id
    attachments,      \* attachments table: set of [email_id, file_name, file_path]
    files,            \* paths written on the filesystem
    mailbox,          \* Gmail: address -> sequence of unread message ids from it
    clock,            \* days elapsed since StartDate (date.today())
    dispatched,       \* reminder notifications accepted by SMTP: {<<id, date, n>>}
    last_op,          \* history: the operation that ran last (see NoRun)
    pollers,          \* one record per running fetch_emails_job
    creators,         \* one record per running create_monthly_reminders
    handled,          \* history: message id -> completed _process_email runs
    tickers           \* one record per instance of the process_reminders job

vars == <<companies, client_emails, reminders, next_reminder_id, emails,
          next_email_id, attachments, files, mailbox, clock, dispatched,
          last_op, pollers, creators, handled, tickers>>

-----------------------------------------------------------------------------
(* Bounds of the model *)

\* rows ever inserted into reminders
MaxReminders == 2
\* days the clock may advance past StartDate
MaxDay == 1
\* rows the interleaved create_monthly_reminders runs ever insert
MaxCreated == 3
\* days the clock may advance in the daily-tick scenarios
MaxTickDay == 5
\* characters of the text the classification service answers with
MaxContentLen == 3
\* characters of a company name
MaxNameLen == 3
\* rows of companies
MaxCompanies == 3
\* the highest id of a client_emails row
MaxClientEmailId == 5

(* Program constants *)

\* max_days_to_send=5 in create_monthly_reminders
DefaultMaxDays == 5
\* a company_id no company row has (comprehensive_api_tester.py)
UnknownCompany == 999999

NoDate == <<0, 0, 0>>
NullInt == 0
NullStr == "NULL"

CompanyIds == {1, 2}
Addresses == {"a1", "a2"}
MsgIds == {"m1", "m2"}
\* the reporting months the operations are called with
Months == {<<2025, 6, 1>>}
\* max_days_to_send values the API is called with
MaxDaysChoices == {1, 2}
StartDate == <<2025, 7, 6>>

-----------------------------------------------------------------------------
(* Dates *)

IsLeap(y) == (y % 4 = 0 /\ y % 100 # 0) \/ y % 400 = 0

DaysInMonth(y, m) ==
    IF m = 2 THEN (IF IsLeap(y) THEN 29 ELSE 28)
    ELSE IF m \in {4, 6, 9, 11} THEN 30 ELSE 31

NextDay(d) ==
    IF d[3] < DaysInMonth(d[1], d[2]) THEN <<d[1], d[2], d[3] + 1>>
    ELSE IF d[2] < 12 THEN <<d[1], d[2] + 1, 1>>
    ELSE <<d[1] + 1, 1, 1>>

RECURSIVE AddDays(_, _)
AddDays(d, n) == IF n = 0 THEN d ELSE AddDays(NextDay(d), n - 1)

DateLT(a, b) ==
    \/ a[1] < b[1]
    \/ a[1] = b[1] /\ a[2] < b[2]
    \/ a[1] = b[1] /\ a[2] = b[2] /\ a[3] < b[3]

DateLE(a, b) == a = b \/ DateLT(a, b)

\* date.today()
Today == AddDays(StartDate, clock)

-----------------------------------------------------------------------------
(* Reminder rows *)

\* Reminder(...) with the column defaults of models/reminder.py
NewReminder(id, company_id, reminder_month, expected_by_date, max_days) ==
    [id |-> id,
     company_id |-> company_id,
     reminder_month |-> reminder_month,
     expected_by_date |-> expected_by_date,
     max_days_to_send |-> max_days,
     days_sent |-> 0,
     is_active |-> TRUE,
     manual_stop |-> FALSE,
     gst_received |-> FALSE,
     last_sent |-> NoDate]

\* ReminderService._calculate_expected_date: the 7th of the next month
calculate_expected_date(reminder_month) ==
    IF reminder_month[2] = 12
    THEN <<reminder_month[1] + 1, 1, 7>>
    ELSE <<reminder_month[1], reminder_month[2] + 1, 7>>

\* the rows of reminders with a given (company_id, reminder_month)
RemindersFor(tbl, c, m) ==
    {id \in DOMAIN tbl : tbl[id].company_id = c /\ tbl[id].reminder_month = m}

\* INSERT INTO reminders: the foreign key on company_id is the only
\* constraint of the table; there is none on (company_id, reminder_month)
ReminderInsertOk(row) == row.company_id \in DOMAIN companies

InsertReminder(tbl, row) == [id \in DOMAIN tbl \cup {row.id} |->
                                IF id = row.id THEN row ELSE tbl[id]]


-----------------------------------------------------------------------------
(* The daily tick: ReminderService.process_daily_reminders *)

\* _get_pending_reminders without the expected_by_date condition
IsPending_NoDueDate(r) ==
    /\ r.is_active = TRUE
    /\ r.manual_stop = FALSE
    /\ r.gst_received = FALSE
    /\ r.days_sent < r.max_days_to_send

\* _get_pending_reminders without the days_sent < max_days_to_send condition
IsPending_NoBudget(r) ==
    /\ r.is_active = TRUE
    /\ r.manual_stop = FALSE
    /\ r.gst_received = FALSE
    /\ DateLE(r.expected_by_date, Today)

\* _get_pending_reminders without the manual_stop condition
IsPending_IgnoresStop(r) ==
    /\ r.is_active = TRUE
    /\ r.gst_received = FALSE
    /\ r.days_sent < r.max_days_to_send
    /\ DateLE(r.expected_by_date, Today)

\* the WHERE clause of _get_pending_reminders
IsPending(r) ==
    /\ r.is_active = TRUE
    /\ r.manual_stop = FALSE
    /\ r.gst_received = FALSE
    /\ r.days_sent < r.max_days_to_send
    /\ DateLE(r.expected_by_date, Today)

get_pending_reminders == {id \in DOMAIN reminders : IsPending(reminders[id])}

\* _process_reminder without its compliance check
check_gst_received_Never(r) == FALSE

\* _check_gst_received without the comparison of the company
check_gst_received_AnyCompany(r) ==
    \E id \in DOMAIN emails :
        /\ emails[id].primary_category = "GST"
        /\ emails[id].data_month = r.reminder_month[2]
        /\ emails[id].data_year = r.reminder_month[1]

\* _check_gst_received: a GST email of the company for the reminder month
check_gst_received(r) ==
    \E id \in DOMAIN emails :
        /\ emails[id].company_id = r.company_id
        /\ emails[id].primary_category = "GST"
        /\ emails[id].data_month = r.reminder_month[2]
        /\ emails[id].data_year = r.reminder_month[1]

\* _should_send_today without the comparison with last_sent
should_send_today_Always(r) == TRUE

\* _should_send_today
should_send_today(r) ==
    IF r.last_sent = NoDate THEN TRUE ELSE DateLT(r.last_sent, Today)

\* EmailSender.send_gst_reminder: False without an active recipient address,
\* else the outcome of the SMTP session (smtp_ok)
send_gst_reminder(company_id, smtp_ok) ==
    IF ~\E ce \in client_emails : ce.company_id = company_id /\ ce.is_active
    THEN FALSE
    ELSE smtp_ok

\* whether _process_reminder reaches the send and the send succeeds
Sends(r, smtp_ok) ==
    /\ ~check_gst_received(r)
    /\ should_send_today(r)
    /\ send_gst_reminder(r.company_id, smtp_ok)

\* _process_reminder counting a send whether or not it succeeded
process_reminder_CountsFailures(r, smtp_ok) ==
    IF check_gst_received(r)
    THEN [r EXCEPT !.gst_received = TRUE, !.is_active = FALSE]
    ELSE IF ~should_send_today(r) THEN r
    ELSE [r EXCEPT !.days_sent = @ + 1,
                   !.last_sent = Today,
                   !.is_active = IF r.days_sent + 1 >= r.max_days_to_send
                                 THEN FALSE ELSE @]

\* _process_reminder stopping only when days_sent exceeds max_days_to_send
process_reminder_OffByOne(r, smtp_ok) ==
    IF check_gst_received(r)
    THEN [r EXCEPT !.gst_received = TRUE, !.is_active = FALSE]
    ELSE IF ~should_send_today(r) THEN r
    ELSE IF send_gst_reminder(r.company_id, smtp_ok)
    THEN [r EXCEPT !.days_sent = @ + 1,
                   !.last_sent = Today,
                   !.is_active = IF r.days_sent + 1 > r.max_days_to_send
                                 THEN FALSE ELSE @]
    ELSE r

\* _process_reminder: the row as the tick leaves it
process_reminder(r, smtp_ok) ==
    IF check_gst_received(r)
    THEN [r EXCEPT !.gst_received = TRUE, !.is_active = FALSE]
    ELSE IF ~should_send_today(r) THEN r
    ELSE IF send_gst_reminder(r.company_id, smtp_ok)
    THEN [r EXCEPT !.days_sent = @ + 1,
                   !.last_sent = Today,
                   !.is_active = IF r.days_sent + 1 >= r.max_days_to_send
                                 THEN FALSE ELSE @]
    ELSE r

\* last_op.op names the operation that ran last, as far as a property needs
\* it: "tick", "monthly" or "other". After create_monthly_reminders, n counts
\* the consecutive runs for last_op.month (capped at 2) and before[c] is the
\* number of rows for (c, month) before the first of them.
NoRun == [op |-> "other", n |-> 0, month |-> NoDate,
          before |-> [c \in CompanyIds |-> 0], arg |-> << >>, out |-> << >>]

TickRun == [NoRun EXCEPT !.op = "tick"]

ingestVars == <<emails, next_email_id, attachments, files, mailbox>>
procVars == <<pollers, creators, handled, tickers>>

\* process_daily_reminders (scheduler job process_reminders); smtp: the ids
\* whose SMTP session succeeds in this run
process_daily_reminders ==
    \E smtp \in SUBSET get_pending_reminders :
        LET pending == get_pending_reminders IN
        /\ reminders' = [id \in DOMAIN reminders |->
                IF id \in pending
                THEN process_reminder(reminders[id], id \in smtp)
                ELSE reminders[id]]
        /\ dispatched' = dispatched \cup
                {<<id, Today, reminders[id].days_sent + 1>> :
                    id \in {i \in pending : Sends(reminders[i], i \in smtp)}}
        /\ last_op' = TickRun
        /\ UNCHANGED <<companies, client_emails, next_reminder_id, clock>>
        /\ UNCHANGED ingestVars
        /\ UNCHANGED procVars

\* the calendar day changes, up to max_day days after StartDate
AdvanceDayUpTo(max_day) ==
    /\ clock < max_day
    /\ clock' = clock + 1
    /\ last_op' = NoRun
    /\ UNCHANGED <<companies, client_emails, reminders, next_reminder_id,
                   dispatched>>
    /\ UNCHANGED ingestVars
    /\ UNCHANGED procVars

AdvanceDay == AdvanceDayUpTo(MaxDay)

-----------------------------------------------------------------------------
(* Reminder creation *)

remFrame ==
    /\ UNCHANGED <<companies, client_emails, clock, dispatched>>
    /\ UNCHANGED ingestVars
    /\ UNCHANGED procVars

\* POST /api/reminders/ (routers/reminders.py, the router main.py mounts)
reminders_create_reminder(company_id, reminder_month, max_days) ==
    LET obj == NewReminder(next_reminder_id, company_id, reminder_month,
                           <<reminder_month[1], reminder_month[2], 7>>,
                           max_days)
    IN  /\ next_reminder_id <= MaxReminders
        /\ IF ReminderInsertOk(obj)
           THEN /\ reminders' = InsertReminder(reminders, obj)
                /\ next_reminder_id' = next_reminder_id + 1
           ELSE UNCHANGED <<reminders, next_reminder_id>>
        /\ last_op' = NoRun
        /\ remFrame

\* POST / of routers/reminder.py
reminder_create_reminder(company_id, reminder_month, max_days) ==
    LET new_reminder == NewReminder(next_reminder_id, company_id,
                                    reminder_month,
                                    calculate_expected_date(reminder_month),
                                    max_days)
    IN  /\ next_reminder_id <= MaxReminders
        /\ IF ReminderInsertOk(new_reminder)
           THEN /\ reminders' = InsertReminder(reminders, new_reminder)
                /\ next_reminder_id' = next_reminder_id + 1
           ELSE UNCHANGED <<reminders, next_reminder_id>>
        /\ last_op' = NoRun
        /\ remFrame

\* create_monthly_reminders without its "existing" check
MonthlyExisting_NoCheck(tbl, c, target_month) == FALSE

\* the "existing" query of create_monthly_reminders over the rows tbl
MonthlyExisting(tbl, c, target_month) == RemindersFor(tbl, c, target_month) # {}

\* the companies create_monthly_reminders adds a Reminder for
MonthlyMissing(target_month) ==
    {c \in DOMAIN companies :
        /\ companies[c].is_active
        /\ ~MonthlyExisting(reminders, c, target_month)}

\* ReminderService.create_monthly_reminders(target_month), run alone
create_monthly_reminders(target_month) ==
    LET missing == MonthlyMissing(target_month)
        idOf(c) == next_reminder_id + Cardinality({x \in missing : x < c})
        newIds == {idOf(c) : c \in missing}
        rowOf(id) == LET c == CHOOSE x \in missing : idOf(x) = id
                     IN NewReminder(id, c, target_month,
                                    calculate_expected_date(target_month),
                                    DefaultMaxDays)
    IN  /\ next_reminder_id + Cardinality(missing) <= MaxReminders + 1
        /\ reminders' = [id \in DOMAIN reminders \cup newIds |->
                            IF id \in newIds THEN rowOf(id) ELSE reminders[id]]
        /\ next_reminder_id' = next_reminder_id + Cardinality(missing)
        /\ last_op' =
              IF last_op.op = "monthly" /\ last_op.month = target_month
              THEN [last_op EXCEPT !.n = 2]
              ELSE [NoRun EXCEPT
                      !.op = "monthly", !.n = 1, !.month = target_month,
                      !.before = [c \in CompanyIds |->
                        Cardinality(RemindersFor(reminders, c, target_month))]]
        /\ remFrame

-----------------------------------------------------------------------------
(* Manual controls *)

\* a ReminderUpdate field: {} when the request leaves it unset, {v} when set
Patch(old, opt) == IF opt = {} THEN old ELSE CHOOSE v \in opt : TRUE

Unset == [max_days_to_send |-> {}, is_active |-> {}, manual_stop |-> {}]

\* the requests that set one field; a request that sets several fields has
\* the effect of these in sequence
ReminderUpdates ==
    {[Unset EXCEPT !.max_days_to_send = {v}] : v \in MaxDaysChoices}
    \cup {[Unset EXCEPT !.is_active = {b}] : b \in BOOLEAN}
    \cup {[Unset EXCEPT !.manual_stop = {b}] : b \in BOOLEAN}

ApplyUpdate(r, data) ==
    [r EXCEPT !.max_days_to_send = Patch(@, data.max_days_to_send),
              !.is_active = Patch(@, data.is_active),
              !.manual_stop = Patch(@, data.manual_stop)]

ctlFrame ==
    /\ last_op' = NoRun
    /\ UNCHANGED <<companies, client_emails, next_reminder_id, clock,
                   dispatched>>
    /\ UNCHANGED ingestVars
    /\ UNCHANGED procVars

\* PUT /api/reminders/{id} (routers/reminders.py); 404 leaves the table alone
reminders_update_reminder(reminder_id, data) ==
    /\ reminder_id \in DOMAIN reminders
    /\ reminders' = [reminders EXCEPT
                        ![reminder_id] = ApplyUpdate(@, data)]
    /\ ctlFrame

\* PUT /{id} of routers/reminder.py
reminder_update_reminder(reminder_id, reminder_update) ==
    /\ reminder_id \in DOMAIN reminders
    /\ reminders' = [reminders EXCEPT
                        ![reminder_id] = ApplyUpdate(@, reminder_update)]
    /\ ctlFrame

\* a stop that also deactivates the reminder
stop_Deactivates(reminder_id) ==
    /\ reminder_id \in DOMAIN reminders
    /\ reminders' = [reminders EXCEPT ![reminder_id].manual_stop = TRUE,
                                      ![reminder_id].is_active = FALSE]
    /\ ctlFrame

\* POST /api/reminders/{id}/stop (routers/reminders.py)
stop(reminder_id) ==
    /\ reminder_id \in DOMAIN reminders
    /\ reminders' = [reminders EXCEPT ![reminder_id].manual_stop = TRUE]
    /\ ctlFrame

\* POST /{id}/stop of routers/reminder.py
stop_reminder(reminder_id) ==
    /\ reminder_id \in DOMAIN reminders
    /\ reminders' = [reminders EXCEPT ![reminder_id].manual_stop = TRUE]
    /\ ctlFrame

\* a restart that also starts the escalation count again
restart_ResetsCount(reminder_id) ==
    /\ reminder_id \in DOMAIN reminders
    /\ reminders' = [reminders EXCEPT ![reminder_id].manual_stop = FALSE,
                                      ![reminder_id].is_active = TRUE,
                                      ![reminder_id].days_sent = 0]
    /\ ctlFrame

\* POST /api/reminders/{id}/restart (routers/reminders.py)
restart(reminder_id) ==
    /\ reminder_id \in DOMAIN reminders
    /\ reminders' = [reminders EXCEPT ![reminder_id].manual_stop = FALSE,
                                      ![reminder_id].is_active = TRUE]
    /\ ctlFrame

\* POST /{id}/restart of routers/reminder.py
restart_reminder(reminder_id) ==
    /\ reminder_id \in DOMAIN reminders
    /\ reminders' = [reminders EXCEPT ![reminder_id].manual_stop = FALSE,
                                      ![reminder_id].is_active = TRUE]
    /\ ctlFrame

\* DELETE /api/reminders/{id} (routers/reminders.py)
delete_reminder(reminder_id) ==
    /\ reminder_id \in DOMAIN reminders
    /\ reminders' = [id \in DOMAIN reminders \ {reminder_id} |-> reminders[id]]
    /\ ctlFrame

\* DELETE /api/companies/{id}: the soft delete of routers/company.py
delete_company(company_id) ==
    /\ company_id \in DOMAIN companies
    /\ companies' = [companies EXCEPT ![company_id].is_active = FALSE]
    /\ last_op' = NoRun
    /\ UNCHANGED <<client_emails, reminders, next_reminder_id, clock,
                   dispatched>>
    /\ UNCHANGED ingestVars
    /\ UNCHANGED procVars

-----------------------------------------------------------------------------
(* Ingestion: GmailService and PerplexityService *)

\* the parts of a message that carry a filename, as users().messages().get
\* returns them; has_id: the part body has an attachmentId
Parts(m) ==
    IF m = "m1" THEN << >>
    ELSE << [filename |-> "a.pdf", has_id |-> TRUE],
            [filename |-> "a.pdf", has_id |-> TRUE] >>

\* what _call_perplexity_api returns: None (ok = FALSE) or the parsed object
NoResult ==
    [ok |-> FALSE, primary_category |-> NullStr, sub_category |-> NullStr,
     data_month |-> NullInt, data_year |-> NullInt]

ClsResults ==
    {NoResult,
     [ok |-> TRUE, primary_category |-> "GST", sub_category |-> "GSTR1",
      data_month |-> 6, data_year |-> 2025],
     [ok |-> TRUE, primary_category |-> "GST", sub_category |-> "GSTR3B",
      data_month |-> NullInt, data_year |-> NullInt],
     [ok |-> TRUE, primary_category |-> "TDS", sub_category |-> NullStr,
      data_month |-> 6, data_year |-> 2025]}

\* what the outside world does while one message is processed: whether
\* messages().get succeeds, which attachment downloads fail, what the
\* classification service answers
Envs(m) ==
    [get_ok : BOOLEAN,
     dl_fail : SUBSET (1..Len(Parts(m))),
     cls : ClsResults]

\* _process_email without its query for an existing row
EmailExists_Never(tbl, m) == FALSE

\* select(Email).where(Email.message_id == message_id) ... first()
EmailExists(tbl, m) == \E id \in DOMAIN tbl : tbl[id].message_id = m

\* emails.message_id without its unique index
EmailInsertOk_NoUniqueIndex(tbl, row) == TRUE

\* the unique index on emails.message_id (models/email.py)
EmailInsertOk(tbl, row) == ~\E id \in DOMAIN tbl : tbl[id].message_id = row.message_id

InsertEmail(tbl, row) == [id \in DOMAIN tbl \cup {row.id} |->
                            IF id = row.id THEN row ELSE tbl[id]]

\* _get_company_from_email: the company of the first active ClientEmail row
get_company_from_email(email_address) ==
    LET rows == {ce \in client_emails :
                    ce.email = email_address /\ ce.is_active}
    IN  IF rows = {} THEN NullInt
        ELSE (CHOOSE ce \in rows : \A o \in rows : ce.id <= o.id).company_id

\* Email(...) as _process_email builds it
NewEmail(id, m, company_id) ==
    [id |-> id, message_id |-> m, company_id |-> company_id,
     primary_category |-> NullStr, sub_category |-> NullStr,
     data_month |-> NullInt, data_year |-> NullInt,
     is_processed |-> FALSE, ai_classified |-> FALSE]

\* str(n) for n >= 0, a string being the sequence of its characters
RECURSIVE str(_)
str(n) ==
    LET digit == <<"0", "1", "2", "3", "4", "5", "6", "7", "8",
                    "9">>[(n % 10) + 1]
    IN  IF n < 10 THEN <<digit>> ELSE str(n \div 10) \o <<digit>>

\* s[2:]
From2(s) == SubSeq(s, 3, Len(s))

\* StorageService.get_financial_year
get_financial_year(month, year) ==
    IF month >= 4 THEN str(year) \o <<"-">> \o From2(str(year + 1))
    ELSE str(year - 1) \o <<"-">> \o From2(str(year))

month_names ==
    <<"", "January", "February", "March", "April", "May", "June", "July",
      "August", "September", "October", "November", "December">>

\* StorageService.get_month_folder; month_names[month] is one element
get_month_folder(month, year) ==
    <<month_names[month + 1], "-">> \o From2(str(year))

\* the characters of a company name: an upper-case letter, a lower-case
\* letter, a digit, the underscore, a blank, the hyphen and a full stop
NameChars == {"A", "a", "1", "_", " ", "-", "."}

\* str.lower
lower(s) == [i \in 1..Len(s) |-> IF s[i] = "A" THEN "a" ELSE s[i]]

\* re.sub(r'[^\w\s-]', '', s)
RemoveSpecial(s) ==
    LET Keep(c) == c \in {"A", "a", "1", "_", " ", "-"} IN SelectSeq(s, Keep)

\* re.sub(r'[\s-]+', '_', s)
RECURSIVE JoinRuns(_)
JoinRuns(s) ==
    IF s = << >> THEN << >>
    ELSE IF Head(s) \in {" ", "-"}
    THEN IF Len(s) >= 2 /\ s[2] \in {" ", "-"}
         THEN JoinRuns(Tail(s))
         ELSE <<"_">> \o JoinRuns(Tail(s))
    ELSE <<Head(s)>> \o JoinRuns(Tail(s))

\* str.strip('_')
RECURSIVE strip(_)
strip(s) ==
    IF s = << >> THEN << >>
    ELSE IF Head(s) = "_" THEN strip(Tail(s))
    ELSE IF s[Len(s)] = "_" THEN strip(SubSeq(s, 1, Len(s) - 1))
    ELSE s

\* StorageService.sanitize_company_name without the final strip
sanitize_company_name_NoStrip(company_name) ==
    JoinRuns(RemoveSpecial(lower(company_name)))

\* StorageService.sanitize_company_name
sanitize_company_name(company_name) ==
    strip(JoinRuns(RemoveSpecial(lower(company_name))))

\* Company(name=..., sanitized_name=...) with the column defaults
NewCompany(name) ==
    [name |-> name, sanitized_name |-> sanitize_company_name(name),
     is_active |-> TRUE]

\* StorageService.save_attachment / create_storage_path: the path written
storage_save_attachment(company_id, data_month, data_year, category, original_filename, email_id) ==
    [root |-> "Gmail_Automation",
     company |-> sanitize_company_name(companies[company_id].name),
     financial_year |-> get_financial_year(data_month, data_year),
     month_folder |-> get_month_folder(data_month, data_year),
     category |-> category,
     filename |-> <<email_id, original_filename>>]

\* the path _save_attachment writes one part to
AttachmentPath(e, filename) ==
    IF e.company_id # NullInt /\ e.primary_category # NullStr
    THEN storage_save_attachment(
            e.company_id,
            IF e.data_month # NullInt THEN e.data_month ELSE Today[2],
            IF e.data_year # NullInt THEN e.data_year ELSE Today[1],
            e.primary_category, filename, e.id)
    ELSE [root |-> "temp", company |-> << >>,
          financial_year |-> << >>, month_folder |-> << >>,
          category |-> NullStr, filename |-> <<e.id, filename>>]

\* _process_attachments: the Attachment rows added for email row e; the
\* parts in dl_fail raise in _save_attachment and are skipped
AttachmentRows(e, m, dl_fail) ==
    {[email_id |-> e.id, part |-> i, file_name |-> Parts(m)[i].filename,
      file_path |-> AttachmentPath(e, Parts(m)[i].filename)] :
        i \in {j \in 1..Len(Parts(m)) : Parts(m)[j].has_id /\ j \notin dl_fail}}

\* PerplexityService._update_email_classification
update_email_classification(e, classification) ==
    [e EXCEPT !.primary_category = classification.primary_category,
              !.sub_category = classification.sub_category,
              !.data_month = classification.data_month,
              !.data_year = classification.data_year,
              !.ai_classified = TRUE]

\* PerplexityService.classify_email
classify_email(e, result) ==
    IF result.ok THEN update_email_classification(e, result) ELSE e

\* the tables one poll works on
Db == [emails |-> emails, next_email_id |-> next_email_id,
       attachments |-> attachments, files |-> files]

\* GmailService._process_email, run without interruption
process_email(db, m, sender_email, env) ==
    IF EmailExists(db.emails, m) THEN db
    ELSE IF ~env[m].get_ok THEN db
    ELSE LET email_record == NewEmail(db.next_email_id, m,
                                      get_company_from_email(sender_email))
             rows == AttachmentRows(email_record, m, env[m].dl_fail)
             classified == classify_email(email_record, env[m].cls)
         IN  IF ~EmailInsertOk(db.emails, email_record) THEN db
             ELSE [emails |-> InsertEmail(db.emails,
                        [classified EXCEPT !.is_processed = TRUE]),
                   next_email_id |-> db.next_email_id + 1,
                   attachments |-> db.attachments \cup rows,
                   files |-> db.files \cup {r.file_path : r \in rows}]

\* the loop of _fetch_from_email over the listed messages
RECURSIVE process_messages(_, _, _, _)
process_messages(db, msgs, email_address, env) ==
    IF msgs = <<>> THEN db
    ELSE process_messages(
            process_email(db, Head(msgs), email_address, env),
            Tail(msgs), email_address, env)

\* get_registered_emails: the active addresses of active companies, by row id
RECURSIVE AddressList(_)
AddressList(rows) ==
    IF rows = {} THEN <<>>
    ELSE LET ce == CHOOSE x \in rows : \A o \in rows : x.id <= o.id
         IN <<ce.email>> \o AddressList(rows \ {ce})

get_registered_emails ==
    AddressList({ce \in client_emails :
                    ce.is_active /\ companies[ce.company_id].is_active})

\* the loop of fetch_unread_emails ending at the first address whose
\* messages().list call fails
RECURSIVE fetch_sources_AbortOnFailure(_, _, _, _)
fetch_sources_AbortOnFailure(db, srcs, list_ok, env) ==
    IF srcs = <<>> THEN db
    ELSE IF Head(srcs) \notin list_ok THEN db
    ELSE fetch_sources_AbortOnFailure(
            process_messages(db, mailbox[Head(srcs)], Head(srcs), env),
            Tail(srcs), list_ok, env)

\* the loop of fetch_unread_emails; list_ok: the addresses whose
\* messages().list call succeeds
RECURSIVE fetch_sources(_, _, _, _)
fetch_sources(db, srcs, list_ok, env) ==
    IF srcs = <<>> THEN db
    ELSE fetch_sources(
            IF Head(srcs) \in list_ok
            THEN process_messages(db, mailbox[Head(srcs)], Head(srcs), env)
            ELSE db,
            Tail(srcs), list_ok, env)

\* the listed messages that have no emails row yet, and the addresses that
\* list any: the outside world only matters for these
NewListed ==
    {m \in MsgIds : /\ ~EmailExists(emails, m)
                    /\ \E a \in Addresses :
                         \E i \in 1..Len(mailbox[a]) : mailbox[a][i] = m}

Listing == {a \in Addresses : mailbox[a] # <<>>}

\* EmailScheduler.fetch_emails_job -> fetch_unread_emails, run alone
fetch_emails_job ==
    \E list_ok \in SUBSET Listing :
    \E env \in [NewListed -> UNION {Envs(m) : m \in MsgIds}] :
        LET db == fetch_sources(Db, get_registered_emails, list_ok, env) IN
        /\ \A m \in NewListed : env[m] \in Envs(m)
        /\ emails' = db.emails
        /\ next_email_id' = db.next_email_id
        /\ attachments' = db.attachments
        /\ files' = db.files
        /\ last_op' = NoRun
        /\ UNCHANGED <<companies, client_emails, reminders, next_reminder_id,
                       mailbox, clock, dispatched>>
        /\ UNCHANGED procVars

\* a client's message reaches the inbox and matches "from:<address>"
Arrive(email_address, m) ==
    /\ \A i \in 1..Len(mailbox[email_address]) : mailbox[email_address][i] # m
    /\ mailbox' = [mailbox EXCEPT ![email_address] = Append(@, m)]
    /\ last_op' = NoRun
    /\ UNCHANGED <<companies, client_emails, reminders, next_reminder_id,
                   emails, next_email_id, attachments, files, clock,
                   dispatched>>
    /\ UNCHANGED procVars

-----------------------------------------------------------------------------
(* The reminder state machine with ingestion, every operation run alone *)

\* no Email object in hand
NoEmail == NewEmail(NullInt, NullStr, NullInt)

IdlePoller == [pc |-> "idle", srcs |-> <<>>, addr |-> NullStr, msgs |-> <<>>,
               rec |-> NoEmail]
IdleCreator == [pc |-> "idle", month |-> NoDate, todo |-> <<>>,
                pending |-> <<>>]
\* a process_reminders instance: the reminders still to process (todo), the
\* Reminder objects of its session as loaded and as they are now (rows),
\* the ids processed (done) and the ids whose processing raised (failed);
\* sent is history, the notifications the instance's runs have dispatched
IdleTicker == [pc |-> "idle", todo |-> {}, loaded |-> << >>,
               rows |-> << >>, done |-> {}, failed |-> {}, sent |-> << >>]
PollerIds == {1, 2}
CreatorIds == {1, 2}
TickerIds == {1, 2}

\* the names of the two companies that exist at the start
CompanyNames == << <<"A", " ", "1">>, <<"a">> >>

\* the tables and the processes after startup, the emails table apart
InitRest ==
    /\ companies = [c \in CompanyIds |-> [NewCompany(CompanyNames[c])
                                            EXCEPT !.is_active = (c = 1)]]
    /\ client_emails = {[id |-> 1, email |-> "a1", company_id |-> 1,
                         is_active |-> TRUE],
                        [id |-> 2, email |-> "a2", company_id |-> 1,
                         is_active |-> TRUE]}
    /\ reminders = <<>>
    /\ next_reminder_id = 1
    /\ attachments = {}
    /\ files = {}
    /\ clock = 0
    /\ dispatched = {}
    /\ pollers = [p \in PollerIds |-> IdlePoller]
    /\ creators = [p \in CreatorIds |-> IdleCreator]
    /\ tickers = [p \in TickerIds |-> IdleTicker]

\* the tables and the processes after startup
InitTables ==
    /\ InitRest
    /\ emails = <<>>
    /\ next_email_id = 1
    /\ handled = [m \in MsgIds |-> 0]

\* the state after startup, the mailbox apart
InitDb ==
    /\ InitTables
    /\ last_op = NoRun

Init ==
    /\ InitDb
    /\ mailbox = [a \in Addresses |-> <<>>]

Next ==
    \/ process_daily_reminders
    \/ AdvanceDay
    \/ \E c \in CompanyIds \cup {UnknownCompany}, m \in Months,
          d \in MaxDaysChoices : reminders_create_reminder(c, m, d)
    \/ \E c \in CompanyIds \cup {UnknownCompany}, m \in Months,
          d \in MaxDaysChoices : reminder_create_reminder(c, m, d)
    \/ \E m \in Months : create_monthly_reminders(m)
    \/ \E id \in DOMAIN reminders, u \in ReminderUpdates :
          reminders_update_reminder(id, u)
    \/ \E id \in DOMAIN reminders, u \in ReminderUpdates :
          reminder_update_reminder(id, u)
    \/ \E id \in DOMAIN reminders : stop(id)
    \/ \E id \in DOMAIN reminders : stop_reminder(id)
    \/ \E id \in DOMAIN reminders : restart(id)
    \/ \E id \in DOMAIN reminders : restart_reminder(id)
    \/ \E id \in DOMAIN reminders : delete_reminder(id)
    \/ Arrive("a1", "m1")
    \/ fetch_emails_job

Spec == Init /\ [][Next]_vars

-----------------------------------------------------------------------------
(* The daily tick over a working week: the monthly reminder of company 1,  *)
(* a manual reminder of company 2 (which has no recipient address), the    *)
(* hourly tick, the passing days, the client's mail, stop and restart.     *)

NextDaily ==
    \/ \E m \in Months : create_monthly_reminders(m)
    \/ \E m \in Months : reminders_create_reminder(2, m, DefaultMaxDays)
    \/ process_daily_reminders
    \/ AdvanceDayUpTo(MaxTickDay)
    \/ Arrive("a1", "m1")
    \/ fetch_emails_job
    \/ \E id \in DOMAIN reminders : stop(id)
    \/ \E id \in DOMAIN reminders : stop_reminder(id)
    \/ \E id \in DOMAIN reminders : restart(id)
    \/ \E id \in DOMAIN reminders : restart_reminder(id)

SpecDaily == Init /\ [][NextDaily]_vars

-----------------------------------------------------------------------------
(* Manual creation with the inputs of the API tester's invalid cases: a    *)
(* company id that does not exist, max_days_to_send of -1 and of 1000.     *)

NegativeDays == -1
TooManyDays == 1000
ManualMaxDays == {NegativeDays, DefaultMaxDays, TooManyDays}

NextManual ==
    \/ \E c \in CompanyIds \cup {UnknownCompany}, m \in Months,
          d \in ManualMaxDays : reminders_create_reminder(c, m, d)
    \/ \E c \in CompanyIds \cup {UnknownCompany}, m \in Months,
          d \in ManualMaxDays : reminder_create_reminder(c, m, d)
    \/ process_daily_reminders
    \/ AdvanceDayUpTo(MaxDay)

SpecManual == Init /\ [][NextManual]_vars

-----------------------------------------------------------------------------
(* create_monthly_reminders step by step: its queries and its commit are   *)
(* separate awaits, so runs started by different processes (or a run and   *)
(* a request) interleave between them.                                     *)

RECURSIVE CompanyList(_)
CompanyList(ids) ==
    IF ids = {} THEN <<>>
    ELSE LET c == CHOOSE x \in ids : \A o \in ids : x <= o
         IN <<c>> \o CompanyList(ids \ {c})

\* rows the runs in flight may still insert
InFlight ==
    LET n(p) == Len(creators[p].todo) + Len(creators[p].pending)
    IN  n(1) + n(2)

createFrame ==
    /\ UNCHANGED <<companies, client_emails, clock, dispatched, last_op,
                   pollers, handled, tickers>>
    /\ UNCHANGED ingestVars

\* select(Company).where(Company.is_active == True)
monthly_select_companies(p, target_month) ==
    LET active == {c \in DOMAIN companies : companies[c].is_active} IN
    /\ creators[p].pc = "idle"
    /\ next_reminder_id + InFlight + Cardinality(active) <= MaxCreated + 1
    /\ creators' = [creators EXCEPT ![p] =
            [pc |-> "loop", month |-> target_month,
             todo |-> CompanyList(active), pending |-> <<>>]]
    /\ UNCHANGED <<reminders, next_reminder_id>>
    /\ createFrame

\* one turn of the loop: the "existing" query, then db.add(reminder)
monthly_check_existing(p) ==
    /\ creators[p].pc = "loop"
    /\ creators[p].todo # <<>>
    /\ LET company == Head(creators[p].todo) IN
       creators' = [creators EXCEPT
            ![p].todo = Tail(@),
            ![p].pending =
                IF MonthlyExisting(reminders, company, creators[p].month)
                THEN @ ELSE Append(@, company)]
    /\ UNCHANGED <<reminders, next_reminder_id>>
    /\ createFrame

\* await db.commit(): the added rows are inserted
monthly_commit(p) ==
    LET pending == creators[p].pending
        row(i) == NewReminder(next_reminder_id + i - 1, pending[i],
                              creators[p].month,
                              calculate_expected_date(creators[p].month),
                              DefaultMaxDays)
    IN  /\ creators[p].pc = "loop"
        /\ creators[p].todo = <<>>
        /\ reminders' =
              [id \in DOMAIN reminders \cup
                       {next_reminder_id + i - 1 : i \in 1..Len(pending)} |->
                  IF id \in DOMAIN reminders THEN reminders[id]
                  ELSE row(id - next_reminder_id + 1)]
        /\ next_reminder_id' = next_reminder_id + Len(pending)
        /\ creators' = [creators EXCEPT ![p] = IdleCreator]
        /\ createFrame

NextCreate ==
    \/ \E p \in CreatorIds, m \in Months : monthly_select_companies(p, m)
    \/ \E p \in CreatorIds : monthly_check_existing(p)
    \/ \E p \in CreatorIds : monthly_commit(p)
    \/ \E id \in DOMAIN reminders : delete_reminder(id)
    \/ \E c \in CompanyIds : delete_company(c)

SpecCreate == Init /\ [][NextCreate]_vars

-----------------------------------------------------------------------------
(* fetch_emails_job step by step: every await of _fetch_from_email and     *)
(* _process_email is a step, so two polls interleave between them.         *)

SkipRun == [NoRun EXCEPT !.op = "skip"]
LostRun == [NoRun EXCEPT !.op = "lost"]

pollFrame ==
    UNCHANGED <<companies, client_emails, reminders, next_reminder_id,
                mailbox, clock, dispatched, creators, tickers>>

dbFrame == UNCHANGED <<emails, next_email_id, attachments, files>>

\* _process_email has returned: the loop of _fetch_from_email goes on
NextMessage(s) ==
    [s EXCEPT !.msgs = Tail(@),
              !.pc = IF Tail(s.msgs) = <<>> THEN "list" ELSE "check",
              !.rec = NoEmail]

\* one more completed _process_email run for m
Handled(m) == [handled EXCEPT ![m] = IF @ < 2 THEN @ + 1 ELSE @]

\* fetch_unread_emails: get_registered_emails
poll_start(p) ==
    /\ pollers[p].pc = "idle"
    /\ pollers' = [pollers EXCEPT ![p] =
            [IdlePoller EXCEPT !.pc = "list", !.srcs = get_registered_emails]]
    /\ last_op' = NoRun
    /\ UNCHANGED handled
    /\ dbFrame
    /\ pollFrame

\* _fetch_from_email: messages().list for the next address; an exception
\* (list_ok = FALSE) or an empty result moves on to the next address
poll_list(p, list_ok) ==
    LET s == pollers[p] IN
    /\ s.pc = "list"
    /\ pollers' = [pollers EXCEPT ![p] =
            IF s.srcs = <<>> THEN IdlePoller
            ELSE IF list_ok /\ mailbox[Head(s.srcs)] # <<>>
            THEN [s EXCEPT !.pc = "check", !.addr = Head(s.srcs),
                           !.srcs = Tail(@), !.msgs = mailbox[Head(s.srcs)]]
            ELSE [s EXCEPT !.srcs = Tail(@)]]
    /\ last_op' = NoRun
    /\ UNCHANGED handled
    /\ dbFrame
    /\ pollFrame

\* _process_email: the query for an existing row and the early return
poll_check(p) ==
    LET s == pollers[p]
        m == Head(s.msgs)
    IN  /\ s.pc = "check"
        /\ IF EmailExists(emails, m)
           THEN /\ pollers' = [pollers EXCEPT ![p] = NextMessage(s)]
                /\ handled' = Handled(m)
                /\ last_op' = SkipRun
           ELSE /\ pollers' = [pollers EXCEPT ![p].pc = "get"]
                /\ last_op' = NoRun
                /\ UNCHANGED handled
        /\ dbFrame
        /\ pollFrame

\* messages().get, the headers and body, _get_company_from_email and
\* Email(...); an exception (get_ok = FALSE) ends _process_email
poll_get(p, get_ok) ==
    LET s == pollers[p]
        m == Head(s.msgs)
    IN  /\ s.pc = "get"
        /\ pollers' = [pollers EXCEPT ![p] =
                IF get_ok
                THEN [s EXCEPT !.pc = "insert",
                               !.rec = NewEmail(NullInt, m,
                                          get_company_from_email(s.addr))]
                ELSE NextMessage(s)]
        /\ last_op' = NoRun
        /\ UNCHANGED handled
        /\ dbFrame
        /\ pollFrame

\* db.add(email_record); await db.commit(): the unique index on message_id
\* raises IntegrityError, the handler rolls back and _process_email ends
poll_insert(p) ==
    LET s == pollers[p]
        row == [s.rec EXCEPT !.id = next_email_id]
    IN  /\ s.pc = "insert"
        /\ IF EmailInsertOk(emails, row)
           THEN /\ emails' = InsertEmail(emails, row)
                /\ next_email_id' = next_email_id + 1
                /\ pollers' = [pollers EXCEPT ![p].pc = "attach",
                                              ![p].rec = row]
                /\ last_op' = NoRun
                /\ UNCHANGED handled
           ELSE /\ pollers' = [pollers EXCEPT ![p] = NextMessage(s)]
                /\ handled' = Handled(row.message_id)
                /\ last_op' = LostRun
                /\ UNCHANGED <<emails, next_email_id>>
        /\ UNCHANGED <<attachments, files>>
        /\ pollFrame

\* _process_attachments and its commit
poll_attach(p, dl_fail) ==
    LET s == pollers[p]
        rows == AttachmentRows(s.rec, s.rec.message_id, dl_fail)
    IN  /\ s.pc = "attach"
        /\ attachments' = attachments \cup rows
        /\ files' = files \cup {r.file_path : r \in rows}
        /\ pollers' = [pollers EXCEPT ![p].pc = "classify"]
        /\ last_op' = NoRun
        /\ UNCHANGED <<emails, next_email_id, handled>>
        /\ pollFrame

\* perplexity_service.classify_email and its commit
poll_classify(p, result) ==
    LET s == pollers[p] IN
    /\ s.pc = "classify"
    /\ emails' = [emails EXCEPT ![s.rec.id] = classify_email(@, result)]
    /\ pollers' = [pollers EXCEPT ![p].pc = "mark"]
    /\ last_op' = NoRun
    /\ UNCHANGED <<next_email_id, attachments, files, handled>>
    /\ pollFrame

\* _process_email marking the row only when it was classified
poll_mark_OnlyClassified(p) ==
    LET s == pollers[p] IN
    /\ s.pc = "mark"
    /\ emails' = [emails EXCEPT ![s.rec.id].is_processed =
                                    emails[s.rec.id].ai_classified]
    /\ pollers' = [pollers EXCEPT ![p] = NextMessage(s)]
    /\ handled' = Handled(s.rec.message_id)
    /\ last_op' = NoRun
    /\ UNCHANGED <<next_email_id, attachments, files>>
    /\ pollFrame

\* email_record.is_processed = True; await db.commit()
poll_mark(p) ==
    LET s == pollers[p] IN
    /\ s.pc = "mark"
    /\ emails' = [emails EXCEPT ![s.rec.id].is_processed = TRUE]
    /\ pollers' = [pollers EXCEPT ![p] = NextMessage(s)]
    /\ handled' = Handled(s.rec.message_id)
    /\ last_op' = NoRun
    /\ UNCHANGED <<next_email_id, attachments, files>>
    /\ pollFrame

\* both addresses have unread mail; message m1 matches both queries
InitIngest ==
    /\ InitDb
    /\ mailbox = [a \in Addresses |->
                    IF a = "a1" THEN <<"m1", "m2">> ELSE <<"m1">>]

NextIngest ==
    \/ \E p \in PollerIds : poll_start(p)
    \/ \E p \in PollerIds, list_ok \in BOOLEAN : poll_list(p, list_ok)
    \/ \E p \in PollerIds : poll_check(p)
    \/ \E p \in PollerIds, get_ok \in BOOLEAN : poll_get(p, get_ok)
    \/ \E p \in PollerIds : poll_insert(p)
    \/ \E p \in PollerIds :
          \E dl_fail \in SUBSET (1..Len(Parts(pollers[p].rec.message_id))) :
              poll_attach(p, dl_fail)
    \/ \E p \in PollerIds, result \in ClsResults : poll_classify(p, result)
    \/ \E p \in PollerIds : poll_mark(p)

SpecIngest == InitIngest /\ [][NextIngest]_vars

-----------------------------------------------------------------------------
(* PerplexityService on the answers of the classification service. The     *)
(* answer text is a sequence of characters: "{", "}", "p" (the members of  *)
(* an object, well formed) and "x" (anything else).                        *)

\* the category vocabulary the prompt offers to the service
CATEGORIES ==
    [PRIMARY |-> {"GST", "TDS", "INCOME_TAX", "ADVANCE_TAX", "AUDIT", "ROC",
                  "CERTIFICATION", "REFUND", "NOTICE"},
     GST_SUB |-> {"GSTR1", "GSTR3B", "GST_PAYMENT", "GST_REFUND",
                  "GST_NOTICE"}]

Chars == {"{", "}", "p", "x"}

\* longer answers: an object inside prose, two objects, a nested object
LongContents ==
    {<<"x", "{", "p", "}", "x">>, <<"{", "}", "{", "}">>,
     <<"{", "p", "}", "x", "{", "p", "}">>, <<"{", "p", "{", "p", "}", "}">>}

Contents == UNION {[1..n -> Chars] : n \in 0..MaxContentLen} \cup LongContents

\* str.find and str.rfind with Python's 0-based indices, -1 when absent
find(content, ch) ==
    IF \E i \in 1..Len(content) : content[i] = ch
    THEN (CHOOSE i \in 1..Len(content) :
            /\ content[i] = ch
            /\ \A j \in 1..(i - 1) : content[j] # ch) - 1
    ELSE -1

rfind(content, ch) ==
    IF \E i \in 1..Len(content) : content[i] = ch
    THEN (CHOOSE i \in 1..Len(content) :
            /\ content[i] = ch
            /\ \A j \in (i + 1)..Len(content) : content[j] # ch) - 1
    ELSE -1

\* content[json_start:json_end]
Slice(content, json_start, json_end) ==
    SubSeq(content, json_start + 1, json_end)

\* whether json.loads accepts the text: one object, whose nested objects
\* follow a member and are closed, and nothing after it
RECURSIVE JsonObject(_, _, _)
JsonObject(text, i, depth) ==
    IF i > Len(text) THEN depth = 0 /\ Len(text) > 0
    ELSE IF text[i] = "{"
    THEN /\ (i = 1 \/ (depth >= 1 /\ text[i - 1] = "p"))
         /\ JsonObject(text, i + 1, depth + 1)
    ELSE IF text[i] = "}"
    THEN /\ depth >= 1
         /\ (depth = 1 => i = Len(text))
         /\ JsonObject(text, i + 1, depth - 1)
    ELSE IF text[i] = "p"
    THEN depth >= 1 /\ JsonObject(text, i + 1, depth)
    ELSE FALSE

\* whether the parsed object has any member ({} is falsy in Python)
HasMembers(text) == Len(text) >= 2 /\ text[2] = "p"

\* the values of the members a well-formed, non-empty answer may carry
Objects ==
    [ok : {TRUE},
     primary_category : {"GST", "INVOICE", NullStr},
     sub_category : {"GSTR1", NullStr},
     data_month : {6, 13, NullInt},
     data_year : {2025}]

\* json.loads accepting any text between the braces
json_loads_Lenient(text, obj) == [exc |-> FALSE, value |-> obj]

\* json.loads(json_str): JSONDecodeError (exc), {} or the object obj
json_loads(text, obj) ==
    IF ~JsonObject(text, 1, 0) THEN [exc |-> TRUE, value |-> NoResult]
    ELSE IF HasMembers(text) THEN [exc |-> FALSE, value |-> obj]
    ELSE [exc |-> FALSE, value |-> NoResult]

\* the answers of the service: no answer in time, an error status, a body
\* without choices[0].message.content, or a content text; obj is what the
\* members of the text stand for
Responses ==
    {[kind |-> k, content |-> << >>, obj |-> NoResult] :
        k \in {"timeout", "status", "envelope"}}
    \cup {[kind |-> "content", content |-> c, obj |-> NoResult] :
            c \in Contents}
    \cup {[kind |-> "content", content |-> c, obj |-> o] :
            c \in {t \in Contents : \E i \in 1..Len(t) : t[i] = "p"},
            o \in Objects}

\* the try block of _call_perplexity_api: exc when it raises
ApiBody(response) ==
    IF response.kind # "content" THEN [exc |-> TRUE, value |-> NoResult]
    ELSE LET content == response.content
             json_start == find(content, "{")
             json_end == rfind(content, "}") + 1
         IN  IF json_start # -1 /\ json_end > json_start
             THEN LET parsed == json_loads(
                        Slice(content, json_start, json_end), response.obj)
                  IN  IF parsed.exc THEN [exc |-> FALSE, value |-> NoResult]
                      ELSE parsed
             ELSE [exc |-> FALSE, value |-> NoResult]

\* _call_perplexity_api: None (NoResult) on any exception
call_perplexity_api(response) ==
    IF ApiBody(response).exc THEN NoResult ELSE ApiBody(response).value

\* the try block of classify_email: ret is the value returned, exc is set
\* when _update_email_classification re-raises a failed commit
ClassifyBody(e, response, db_ok) ==
    LET classification_result == call_perplexity_api(response) IN
    IF classification_result.ok
    THEN IF db_ok
         THEN [exc |-> FALSE, ret |-> TRUE,
               row |-> classify_email(e, classification_result)]
         ELSE [exc |-> TRUE, ret |-> FALSE, row |-> e]
    ELSE [exc |-> FALSE, ret |-> FALSE, row |-> e]

\* classify_email as its callers see it
classify_email_outcome(e, response, db_ok) ==
    IF ClassifyBody(e, response, db_ok).exc
    THEN [exc |-> FALSE, ret |-> FALSE, row |-> e]
    ELSE ClassifyBody(e, response, db_ok)

\* last_op after classify_email: n = 1 returned True, 0 returned False,
\* 2 raised
ClassifyRun(outcome) ==
    [NoRun EXCEPT !.op = "classify",
                  !.n = IF outcome.exc THEN 2
                        ELSE IF outcome.ret THEN 1 ELSE 0]

classifyFrame ==
    /\ UNCHANGED <<companies, client_emails, reminders, next_reminder_id,
                   next_email_id, attachments, files, mailbox, clock,
                   dispatched>>
    /\ UNCHANGED procVars

\* POST /api/emails/{email_id}/classify (routers/emails.py): classify_email
\* on a stored email
classify_single_email(email_id, response, db_ok) ==
    /\ email_id \in DOMAIN emails
    /\ LET outcome == classify_email_outcome(emails[email_id], response,
                                             db_ok)
       IN  /\ emails' = [emails EXCEPT ![email_id] = outcome.row]
           /\ last_op' = ClassifyRun(outcome)
    /\ classifyFrame

\* reprocess_email that also clears the stored classification
reprocess_email_ClearsClassification(email_id) ==
    /\ email_id \in DOMAIN emails
    /\ emails' = [emails EXCEPT ![email_id] =
                    NewEmail(@.id, @.message_id, @.company_id)]
    /\ last_op' = NoRun
    /\ classifyFrame

\* POST /api/emails/{id}/reprocess (routers/email.py)
reprocess_email(email_id) ==
    /\ email_id \in DOMAIN emails
    /\ emails' = [emails EXCEPT ![email_id].is_processed = FALSE,
                                ![email_id].ai_classified = FALSE]
    /\ last_op' = NoRun
    /\ classifyFrame

\* one email stored by a poll whose classification failed
InitClassify ==
    /\ InitDb
    /\ mailbox = [a \in Addresses |-> IF a = "a1" THEN <<"m1">> ELSE << >>]

NextClassify ==
    \/ fetch_emails_job
    \/ \E id \in DOMAIN emails, response \in Responses, db_ok \in BOOLEAN :
          classify_single_email(id, response, db_ok)
    \/ \E id \in DOMAIN emails : reprocess_email(id)

SpecClassify == InitClassify /\ [][NextClassify]_vars

-----------------------------------------------------------------------------
(* StorageService's functions of the period and of the company name, each  *)
(* called on every input: last_op holds the call, its argument and what it *)
(* returned.                                                               *)

FiscalYears == {1000, 1999, 2000, 2009, 2024, 2025, 2099, 9998, 9999}

Names == UNION {[1..n -> NameChars] : n \in 0..MaxNameLen}

storageFrame ==
    /\ UNCHANGED <<companies, client_emails, reminders, next_reminder_id,
                   clock, dispatched>>
    /\ UNCHANGED ingestVars
    /\ UNCHANGED procVars

\* create_storage_path: financial_year = get_financial_year(month, year)
call_get_financial_year ==
    /\ last_op.op = "get_financial_year"
    /\ last_op.n = 0
    /\ last_op' = [last_op EXCEPT
            !.n = 1,
            !.out = get_financial_year(last_op.arg[1], last_op.arg[2])]
    /\ storageFrame

\* create_company, create_storage_path: sanitize_company_name(name); the
\* second call is made on what the first returned
call_sanitize_company_name ==
    /\ last_op.op = "sanitize_company_name"
    /\ last_op.n < 2
    /\ LET company_name == IF last_op.n = 0 THEN last_op.arg ELSE last_op.out
       IN  last_op' = [last_op EXCEPT
               !.n = @ + 1,
               !.arg = company_name,
               !.out = sanitize_company_name(company_name)]
    /\ storageFrame

InitStorage ==
    /\ InitTables
    /\ mailbox = [a \in Addresses |-> << >>]
    /\ \/ \E month \in 1..12, year \in FiscalYears :
            last_op = [NoRun EXCEPT !.op = "get_financial_year",
                                    !.arg = <<month, year>>]
       \/ \E company_name \in Names :
            last_op = [NoRun EXCEPT !.op = "sanitize_company_name",
                                    !.arg = company_name]

NextStorage ==
    \/ call_get_financial_year
    \/ call_sanitize_company_name

SpecStorage == InitStorage /\ [][NextStorage]_vars

-----------------------------------------------------------------------------
(* The company router: create, update and soft delete, each run alone.     *)
(* last_op.n is the status of the response.                                *)

\* the names and the address lists of the requests; NoList: client_emails
\* is not given (None), an empty name is not given either
NewNames == {<< >>, <<"A">>, <<"1">>}
NoList == <<NullStr>>
EmailLists == UNION {[1..n -> Addresses] : n \in 0..2}

\* the query for a ClientEmail row with the address, never finding one
ExistingEmail_Never(rows, email, company_id, other_only) == FALSE

\* select(ClientEmail).where(ClientEmail.email == email), in update_company
\* (other_only) with .where(ClientEmail.company_id != company_id)
ExistingEmail(rows, email, company_id, other_only) ==
    \E ce \in rows :
        ce.email = email /\ (other_only => ce.company_id # company_id)

\* the id the next client_emails row gets
NextClientEmailId(rows) ==
    IF rows = {} THEN 1
    ELSE (CHOOSE ce \in rows : \A o \in rows : o.id <= ce.id).id + 1

\* the loop over the client_emails of the request; rows is the table as the
\* session sees it, its own pending rows included; ok = FALSE: the
\* HTTPException(400) was raised
RECURSIVE AddClientEmails(_, _, _, _, _)
AddClientEmails(rows, list, company_id, other_only, id) ==
    IF list = << >> THEN [ok |-> TRUE, rows |-> rows]
    ELSE IF ExistingEmail(rows, Head(list), company_id, other_only)
    THEN [ok |-> FALSE, rows |-> rows]
    ELSE AddClientEmails(
            rows \cup {[id |-> id, email |-> Head(list),
                        company_id |-> company_id, is_active |-> TRUE]},
            Tail(list), company_id, other_only, id + 1)

Status(op, code) == [NoRun EXCEPT !.op = op, !.n = code]

companyFrame ==
    /\ UNCHANGED <<reminders, next_reminder_id, clock, dispatched>>
    /\ UNCHANGED ingestVars
    /\ UNCHANGED procVars

\* POST /api/companies/
create_company(name, list) ==
    LET company_id == Cardinality(DOMAIN companies) + 1
        added == AddClientEmails(client_emails, list, company_id, FALSE,
                                 NextClientEmailId(client_emails))
    IN  /\ company_id <= MaxCompanies
        /\ NextClientEmailId(client_emails) + Len(list) - 1
              <= MaxClientEmailId
        /\ IF \/ \E c \in DOMAIN companies : companies[c].name = name
              \/ ~added.ok
           THEN /\ last_op' = Status("create_company", 400)
                /\ UNCHANGED <<companies, client_emails>>
           ELSE /\ companies' =
                     [c \in DOMAIN companies \cup {company_id} |->
                        IF c = company_id THEN NewCompany(name)
                        ELSE companies[c]]
                /\ client_emails' = added.rows
                /\ last_op' = Status("create_company", 200)
        /\ companyFrame

\* PUT /api/companies/{company_id}
update_company(company_id, name, list) ==
    LET renamed == IF name # << >>
                   THEN [companies EXCEPT
                           ![company_id].name = name,
                           ![company_id].sanitized_name =
                               sanitize_company_name(name)]
                   ELSE companies
        kept == {ce \in client_emails : ce.company_id # company_id}
        added == IF list = NoList
                 THEN [ok |-> TRUE, rows |-> client_emails]
                 ELSE AddClientEmails(kept, list, company_id, TRUE,
                                      NextClientEmailId(client_emails))
        unique == \A c \in DOMAIN companies \ {company_id} :
                      companies[c].name # renamed[company_id].name
    IN  /\ company_id \in DOMAIN companies
        /\ list # NoList =>
              NextClientEmailId(client_emails) + Len(list) - 1
                  <= MaxClientEmailId
        /\ IF ~added.ok
           THEN /\ last_op' = Status("update_company", 400)
                /\ UNCHANGED <<companies, client_emails>>
           ELSE IF ~unique
           THEN /\ last_op' = Status("update_company", 500)
                /\ UNCHANGED <<companies, client_emails>>
           ELSE /\ companies' = renamed
                /\ client_emails' = added.rows
                /\ last_op' = Status("update_company", 200)
        /\ companyFrame

NextCompany ==
    \/ \E name \in NewNames \ {<< >>}, list \in EmailLists :
          create_company(name, list)
    \/ \E c \in DOMAIN companies, name \in NewNames,
          list \in EmailLists \cup {NoList} : update_company(c, name, list)
    \/ \E c \in DOMAIN companies : delete_company(c)

SpecCompany == Init /\ [][NextCompany]_vars

-----------------------------------------------------------------------------
(* One poll at a time over two addresses with a message each. last_op      *)
(* holds what the poll returned (n) and what the outside world did to it:  *)
(* arg[1] the addresses whose listing succeeded, arg[2] the new messages   *)
(* whose messages().get failed.                                            *)

\* processed_count: len(messages) of every address listed
RECURSIVE processed_count(_, _)
processed_count(srcs, list_ok) ==
    IF srcs = << >> THEN 0
    ELSE (IF Head(srcs) \in list_ok THEN Len(mailbox[Head(srcs)]) ELSE 0)
         + processed_count(Tail(srcs), list_ok)

\* GmailService.fetch_unread_emails, run alone
fetch_unread_emails(list_ok, env) ==
    LET db == fetch_sources(Db, get_registered_emails, list_ok, env) IN
    /\ \A m \in NewListed : env[m] \in Envs(m)
    /\ emails' = db.emails
    /\ next_email_id' = db.next_email_id
    /\ attachments' = db.attachments
    /\ files' = db.files
    /\ last_op' = [NoRun EXCEPT
            !.op = "poll",
            !.n = processed_count(get_registered_emails, list_ok),
            !.arg = <<list_ok, {m \in NewListed : ~env[m].get_ok}>>]
    /\ UNCHANGED <<companies, client_emails, reminders, next_reminder_id,
                   mailbox, clock, dispatched>>
    /\ UNCHANGED procVars

NextPoll ==
    \/ \E list_ok \in SUBSET Listing :
       \E env \in [NewListed -> UNION {Envs(m) : m \in MsgIds}] :
          fetch_unread_emails(list_ok, env)
    \/ Arrive("a1", "m1")
    \/ Arrive("a2", "m2")

SpecPoll == Init /\ [][NextPoll]_vars

-----------------------------------------------------------------------------
(* Properties of the reminder state machine (checked under Spec) *)

\* C1: in every reachable state every Reminder has
\* sent_count <= max_escalations (days_sent <= max_days_to_send).
C1_SentWithinMax ==
    \A id \in DOMAIN reminders :
        reminders[id].days_sent <= reminders[id].max_days_to_send

\* C2: in every reachable state every Reminder with compliance_received
\* (gst_received) has active (is_active) = false.
C2_ComplianceInactive ==
    \A id \in DOMAIN reminders :
        reminders[id].gst_received => ~reminders[id].is_active

\* C3: in every reachable state every Reminder with
\* sent_count >= max_escalations has active = false.
C3_ExhaustedInactive ==
    \A id \in DOMAIN reminders :
        reminders[id].days_sent >= reminders[id].max_days_to_send
            => ~reminders[id].is_active

\* C6: when create_monthly_reminders runs a second time in sequence for the
\* same month, the run changes no Reminder row, and every active company
\* that had at most one Reminder for the month before the first run has
\* exactly one after the second.
C6_MonthlyTwice ==
    [][(last_op'.op = "monthly" /\ last_op'.n = 2) =>
          /\ reminders' = reminders
          /\ \A c \in CompanyIds :
                (companies[c].is_active /\ last_op'.before[c] <= 1) =>
                    Cardinality(RemindersFor(reminders', c, last_op'.month)) = 1
      ]_vars

\* C6 witness: two runs in sequence, none before, one Reminder now.
C6_Witness ==
    /\ last_op.op = "monthly"
    /\ last_op.n = 2
    /\ \E c \in CompanyIds :
          /\ companies[c].is_active
          /\ last_op.before[c] = 0
          /\ Cardinality(RemindersFor(reminders, c, last_op.month)) = 1

\* C7: there is at most one Reminder row per (company_id, reminder_month),
\* whatever manual and monthly creations have run.
C7_OneRowPerKey ==
    \A c \in CompanyIds, m \in Months :
        Cardinality(RemindersFor(reminders, c, m)) <= 1

\* the candidate predicate of the daily tick fails for row r
NotCandidate(r) ==
    \/ ~r.is_active
    \/ r.manual_stop
    \/ r.gst_received
    \/ r.days_sent >= r.max_days_to_send
    \/ DateLT(Today, r.expected_by_date)

\* C10: a daily tick leaves every Reminder that fails the candidate
\* predicate (inactive, manually stopped, compliance received, sent_count >=
\* max_escalations, or expected_by later than today) exactly as it was and
\* dispatches nothing for it.
C10_TickSkipsNonCandidates ==
    [][last_op'.op = "tick" =>
          \A id \in DOMAIN reminders :
              NotCandidate(reminders[id]) =>
                  /\ id \in DOMAIN reminders'
                  /\ reminders'[id] = reminders[id]
                  /\ \A e \in dispatched' \ dispatched : e[1] # id
      ]_vars

\* C10 witness: a tick has just run on a day on which one Reminder was sent
\* and another, not yet due and otherwise a candidate, is untouched.
C10_Witness ==
    /\ last_op.op = "tick"
    /\ \E id \in DOMAIN reminders, sent \in DOMAIN reminders :
          /\ DateLT(Today, reminders[id].expected_by_date)
          /\ reminders[id].is_active
          /\ ~reminders[id].manual_stop
          /\ ~reminders[id].gst_received
          /\ reminders[id].days_sent = 0
          /\ reminders[id].last_sent = NoDate
          /\ \E e \in dispatched : e[1] = sent /\ e[2] = Today

\* the 7th day of the month after reporting month m
SeventhOfNextMonth(m) ==
    IF m[2] = 12 THEN <<m[1] + 1, 1, 7>> ELSE <<m[1], m[2] + 1, 7>>

\* C15: every Reminder row a creation adds (monthly or manual) has
\* expected_by = the 7th of the month after reminder_month, sent_count = 0,
\* manual_stop = false and compliance_received = false.
C15_CreatedRowDefaults ==
    [][\A id \in DOMAIN reminders' \ DOMAIN reminders :
          /\ reminders'[id].expected_by_date =
                SeventhOfNextMonth(reminders'[id].reminder_month)
          /\ reminders'[id].days_sent = 0
          /\ ~reminders'[id].manual_stop
          /\ ~reminders'[id].gst_received
      ]_vars

\* C17: while a Reminder has manual_stop = true, no step other than a
\* restart changes its active, compliance_received, sent_count or
\* last_sent, and none dispatches a notification for it.
C17_StoppedIsFrozen ==
    [][\A id \in DOMAIN reminders \cap DOMAIN reminders' :
          (/\ reminders[id].manual_stop
           /\ ~(restart(id) \/ restart_reminder(id)))
          => /\ reminders'[id].is_active = reminders[id].is_active
             /\ reminders'[id].gst_received = reminders[id].gst_received
             /\ reminders'[id].days_sent = reminders[id].days_sent
             /\ reminders'[id].last_sent = reminders[id].last_sent
             /\ \A e \in dispatched' \ dispatched : e[1] # id
      ]_vars

\* C30: a manual creation with a company id that does not exist or with a
\* negative or out-of-range max_days_to_send creates no Reminder.
C30_MalformedCreationRejected ==
    \A id \in DOMAIN reminders :
        /\ reminders[id].company_id \in DOMAIN companies
        /\ reminders[id].max_days_to_send \notin {NegativeDays, TooManyDays}

-----------------------------------------------------------------------------
(* Properties of interleaved creation runs (checked under SpecCreate) *)

\* C8: when monthly-creation runs for the same month interleave, once they
\* have all finished there is at most one Reminder row per
\* (company_id, reminder_month).
C8_NoDuplicateAfterInterleaving ==
    (\A p \in CreatorIds : creators[p].pc = "idle") =>
        \A c \in CompanyIds, m \in Months :
            Cardinality(RemindersFor(reminders, c, m)) <= 1

\* C29: no operation removes a Reminder: a row that exists keeps existing.
C29_ReminderNeverRemoved ==
    [][\A id \in DOMAIN reminders : id \in DOMAIN reminders']_vars

-----------------------------------------------------------------------------
(* Properties of interleaved polls (checked under SpecIngest) *)

\* the emails rows with message id m
EmailRows(tbl, m) == {id \in DOMAIN tbl : tbl[id].message_id = m}

\* C4: however the polls list a message id (twice in one poll, or in
\* several polls), there is never more than one emails row with it, and once
\* the message has been handled more than once there is exactly one.
C4_OneRecordPerMessage ==
    \A m \in MsgIds :
        /\ Cardinality(EmailRows(emails, m)) <= 1
        /\ handled[m] >= 2 => Cardinality(EmailRows(emails, m)) = 1

\* C4 witness: m1, listed under both addresses, has been handled twice and
\* m2 once; each has its one row.
C4_Witness ==
    /\ handled["m1"] = 2
    /\ handled["m2"] >= 1
    /\ Cardinality(EmailRows(emails, "m1")) = 1
    /\ Cardinality(EmailRows(emails, "m2")) = 1

\* C5: when a poll comes to a message whose id already has an emails row,
\* handling it changes no emails row, adds no attachment row and no file,
\* and the poll goes on to its next message without fetching or
\* classifying this one.
C5_ExistingIsSkipped ==
    [][\A p \in PollerIds :
          (/\ pollers[p].pc = "check"
           /\ pollers'[p] # pollers[p]
           /\ EmailRows(emails, Head(pollers[p].msgs)) # {})
          => /\ emails' = emails
             /\ attachments' = attachments
             /\ files' = files
             /\ pollers'[p].msgs = Tail(pollers[p].msgs)
             /\ pollers'[p].pc \in {"check", "list"}
      ]_vars

\* C5 witness: a poll has just skipped a message whose row another run
\* classified and whose attachments are stored.
C5_Witness ==
    /\ last_op.op = "skip"
    /\ \E id \in DOMAIN emails :
          /\ emails[id].ai_classified
          /\ emails[id].is_processed
          /\ \E a \in attachments : a.email_id = id

\* C9: when two polls have both passed the existence check for the same
\* new message id, the poll whose insert comes second changes no emails
\* row, adds no attachment row and no file and goes on to its next message,
\* and exactly one emails row has that id; no attachment row belongs to a
\* missing emails row.
C9_LoserLeavesNothing ==
    /\ [](\A a \in attachments : a.email_id \in DOMAIN emails)
    /\ [][\A p \in PollerIds :
            (/\ pollers[p].pc = "insert"
             /\ pollers'[p] # pollers[p]
             /\ EmailRows(emails, pollers[p].rec.message_id) # {})
            => /\ emails' = emails
               /\ attachments' = attachments
               /\ files' = files
               /\ Cardinality(EmailRows(emails',
                                        pollers[p].rec.message_id)) = 1
               /\ pollers'[p].pc \in {"check", "list"}
        ]_vars

\* C9 witness: a poll has just lost the insert of m2, the message with
\* attachments, to the other poll, which is still working on it.
C9_Witness ==
    /\ last_op.op = "lost"
    /\ Cardinality(EmailRows(emails, "m2")) = 1
    /\ \E p \in PollerIds :
          /\ pollers[p].rec.message_id = "m2"
          /\ pollers[p].pc \in {"attach", "classify", "mark"}
    /\ \E p \in PollerIds :
          /\ pollers[p].pc = "list"
          /\ pollers[p].addr = "a1"

\* the email row a poll is still working on
InHand(id) ==
    \E p \in PollerIds :
        /\ pollers[p].pc \in {"attach", "classify", "mark"}
        /\ pollers[p].rec.id = id

\* C21: a message is persisted, then classified, then its attachments are
\* persisted, and only after its classification has succeeded: every
\* attachment row belongs to a classified email.
C21_AttachmentsAfterClassification ==
    \A a \in attachments :
        /\ a.email_id \in DOMAIN emails
        /\ emails[a.email_id].ai_classified

\* the path the resolver computes for an attachment of email row e
ResolvedPath(e, file_name) ==
    storage_save_attachment(
        e.company_id,
        IF e.data_month # NullInt THEN e.data_month ELSE Today[2],
        IF e.data_year # NullInt THEN e.data_year ELSE Today[1],
        e.primary_category, file_name, e.id)

\* C22: every attachment a poll persisted for a message whose sender
\* resolves to a company and whose classification succeeded is recorded
\* under root/company/financial year/month folder/category with the
\* email-id-prefixed filename.
C22_AttachmentAtResolvedPath ==
    \A a \in attachments :
        LET e == emails[a.email_id] IN
        (e.company_id # NullInt /\ e.ai_classified /\ e.is_processed)
            => a.file_path = ResolvedPath(e, a.file_name)

\* C23: every emails row a poll created has is_processed = true once the
\* poll has finished handling the message, whether or not classification
\* and the attachment downloads succeeded.
C23_ProcessedWhenHandled ==
    \A id \in DOMAIN emails : ~InHand(id) => emails[id].is_processed

\* C23 witness: the row of m2 is processed, no poll holds it, its
\* classification failed and none of its attachments was stored.
C23_Witness ==
    \E id \in DOMAIN emails :
        /\ emails[id].message_id = "m2"
        /\ ~InHand(id)
        /\ emails[id].is_processed
        /\ ~emails[id].ai_classified
        /\ ~\E a \in attachments : a.email_id = id

\* C25: any two distinct persisted attachments have distinct paths, also
\* when they carry the same original filename, in one email or in two.
C25_DistinctPaths ==
    \A a, b \in attachments : a # b => a.file_path # b.file_path

-----------------------------------------------------------------------------
(* Properties of the daily tick (checked under SpecDaily) *)

\* C11: for every Reminder and calendar day, however many ticks run on the
\* day, at most one notification is dispatched, and sent_count (days_sent)
\* only ever grows by one, together with a dispatch, on a day on which
\* nothing had been sent for the Reminder yet.
C11_OneSendPerDay ==
    /\ [](\A e1 \in dispatched, e2 \in dispatched :
            (e1[1] = e2[1] /\ e1[2] = e2[2]) => e1 = e2)
    /\ [][\A id \in DOMAIN reminders \cap DOMAIN reminders' :
            reminders'[id].days_sent # reminders[id].days_sent =>
                /\ reminders'[id].days_sent = reminders[id].days_sent + 1
                /\ reminders[id].last_sent # Today
                /\ reminders'[id].last_sent = Today
                /\ <<id, Today, reminders'[id].days_sent>>
                        \in dispatched' \ dispatched
        ]_vars

\* C11 witness: a tick has run on a day on which the Reminder, sent the day
\* before too, already has its send of the day and is still a candidate.
C11_Witness ==
    /\ last_op.op = "tick"
    /\ \E id \in DOMAIN reminders :
          /\ IsPending(reminders[id])
          /\ reminders[id].last_sent = Today
          /\ reminders[id].days_sent = 2
          /\ Cardinality({e \in dispatched : e[1] = id}) = 2

\* the notifications dispatched for Reminder id
DispatchedFor(id) == {e \in dispatched : e[1] = id}

\* C12: every tick that dispatches for a Reminder raises sent_count by one
\* and leaves it active exactly while sent_count < max_escalations, and
\* sent_count always equals the number of dispatches: N successful daily
\* ticks bring a due Reminder with max_escalations = N (5 by default) to
\* sent_count = N, active after the first N-1 and inactive after the N-th.
C12_EscalationToMax ==
    /\ [](\A id \in DOMAIN reminders :
            /\ reminders[id].days_sent = Cardinality(DispatchedFor(id))
            /\ reminders[id].days_sent <= reminders[id].max_days_to_send)
    /\ [][\A id \in DOMAIN reminders \cap DOMAIN reminders' :
            (\E e \in dispatched' \ dispatched : e[1] = id) =>
                /\ reminders[id].is_active
                /\ reminders'[id].days_sent = reminders[id].days_sent + 1
                /\ reminders'[id].is_active =
                      (reminders'[id].days_sent
                          < reminders'[id].max_days_to_send)
        ]_vars

\* C12 witness: the monthly Reminder (max_days_to_send = 5) after sends on
\* five consecutive days, 2025-07-07 .. 2025-07-11: sent 5 times, inactive.
C12_Witness ==
    /\ last_op.op = "tick"
    /\ \E id \in DOMAIN reminders :
          /\ reminders[id].max_days_to_send = DefaultMaxDays
          /\ reminders[id].days_sent = DefaultMaxDays
          /\ ~reminders[id].is_active
          /\ ~reminders[id].manual_stop
          /\ ~reminders[id].gst_received
          /\ DispatchedFor(id) =
                {<<id, AddDays(StartDate, k), k>> : k \in 1..DefaultMaxDays}

\* an ingested email is compliance evidence for Reminder row r
GstEvidence(r) ==
    \E e \in DOMAIN emails :
        /\ emails[e].company_id = r.company_id
        /\ emails[e].primary_category = "GST"
        /\ emails[e].data_month = r.reminder_month[2]
        /\ emails[e].data_year = r.reminder_month[1]

\* C13: a tick that finds a GST email of the company for the reminder month
\* sets compliance_received = true and active = false on the candidate
\* Reminder, changes nothing else of it and dispatches nothing for it; and
\* for a Reminder with compliance_received = true no step ever dispatches
\* or resets the flag.
C13_CompliantStops ==
    /\ [][last_op'.op = "tick" =>
            \A id \in DOMAIN reminders :
                (~NotCandidate(reminders[id]) /\ GstEvidence(reminders[id]))
                => /\ id \in DOMAIN reminders'
                   /\ reminders'[id] = [reminders[id] EXCEPT
                          !.gst_received = TRUE, !.is_active = FALSE]
                   /\ \A e \in dispatched' \ dispatched : e[1] # id
        ]_vars
    /\ [][\A id \in DOMAIN reminders :
            reminders[id].gst_received =>
                /\ \A e \in dispatched' \ dispatched : e[1] # id
                /\ id \in DOMAIN reminders' => reminders'[id].gst_received
        ]_vars

\* C13 witness: the compliant email arrived after two sends; the tick has
\* resolved the Reminder with three escalations left, and a restart has
\* made it active again.
C13_Witness ==
    \E id \in DOMAIN reminders :
        /\ reminders[id].gst_received
        /\ reminders[id].is_active
        /\ reminders[id].days_sent = 2
        /\ reminders[id].max_days_to_send = DefaultMaxDays
        /\ GstEvidence(reminders[id])
        /\ DateLT(reminders[id].last_sent, Today)

\* C14: when a tick processes a candidate Reminder without compliance
\* evidence and dispatches nothing for it (the send failed, the company has
\* no active recipient address, or today's send was already made), the
\* Reminder row is unchanged - sent_count, last_sent and active included -
\* and it is still a candidate.
C14_FailedSendChangesNothing ==
    [][last_op'.op = "tick" =>
          \A id \in DOMAIN reminders :
              (/\ ~NotCandidate(reminders[id])
               /\ ~GstEvidence(reminders[id])
               /\ \A e \in dispatched' \ dispatched : e[1] # id)
              => /\ id \in DOMAIN reminders'
                 /\ reminders'[id] = reminders[id]
                 /\ IsPending(reminders'[id])
      ]_vars

\* C14 witness: after a tick, a Reminder of company 1 (sink failure) and a
\* Reminder of company 2 (no recipient address) are both due, not sent
\* today and still candidates: their dispatch failed in that tick.
C14_Witness ==
    /\ last_op.op = "tick"
    /\ \E id \in DOMAIN reminders, other \in DOMAIN reminders :
          /\ reminders[id].company_id = 1
          /\ reminders[other].company_id = 2
          /\ \A i \in {id, other} :
                /\ ~NotCandidate(reminders[i])
                /\ ~GstEvidence(reminders[i])
                /\ reminders[i].last_sent # Today
          /\ reminders[id].days_sent = 1
          /\ reminders[other].days_sent = 0

\* C16: stop(id) (either router) on an existing Reminder sets manual_stop =
\* true and changes nothing else: active, compliance_received, sent_count,
\* max_escalations, expected_by and last_sent of the row, and every other
\* row, stay as they were, whatever their values.
C16_StopSetsOnlyManualStop ==
    [][\A id \in DOMAIN reminders :
          (stop(id) \/ stop_reminder(id)) =>
              reminders' = [reminders EXCEPT ![id].manual_stop = TRUE]
      ]_vars

\* C16 witness: a Reminder resolved by a compliant email after one send
\* (inactive, compliance_received, sent_count = 1) has been stopped.
C16_Witness ==
    \E id \in DOMAIN reminders :
        /\ reminders[id].manual_stop
        /\ reminders[id].gst_received
        /\ ~reminders[id].is_active
        /\ reminders[id].days_sent = 1
        /\ reminders[id].last_sent # NoDate

\* C18: restart(id) (either router) on an existing Reminder sets
\* manual_stop = false and active = true and changes nothing else:
\* sent_count, last_sent, compliance_received and every other field and
\* row keep their values.
C18_RestartSetsOnlyTwoFlags ==
    [][\A id \in DOMAIN reminders :
          (restart(id) \/ restart_reminder(id)) =>
              reminders' = [reminders EXCEPT ![id].manual_stop = FALSE,
                                             ![id].is_active = TRUE]
      ]_vars

\* C18 witness: a Reminder exhausted after five sends has been restarted:
\* active again, with its sent_count and last_sent.
C18_Witness ==
    \E id \in DOMAIN reminders :
        /\ reminders[id].is_active
        /\ ~reminders[id].manual_stop
        /\ ~reminders[id].gst_received
        /\ reminders[id].days_sent = DefaultMaxDays
        /\ reminders[id].max_days_to_send = DefaultMaxDays
        /\ reminders[id].last_sent = AddDays(StartDate, DefaultMaxDays)

-----------------------------------------------------------------------------
(* Properties of classification (checked under SpecClassify) *)

\* answers that carry no usable object: no answer in time, an error status,
\* a body without the content field, a text with no "{"..."}" span, and
\* texts whose span is not one well-formed object
BadContents ==
    {<< >>, <<"x">>, <<"p">>, <<"{">>, <<"}">>, <<"}", "{">>,
     <<"{", "p">>, <<"p", "}">>, <<"{", "x", "}">>, <<"}", "p", "{">>,
     <<"{", "p", "x">>, <<"{", "}", "{", "}">>,
     <<"{", "p", "}", "x", "{", "p", "}">>}

FailResponses ==
    {r \in Responses : r.kind # "content" \/ r.content \in BadContents}

\* C19: classify_email never raises to its caller, and on a timeout, an
\* error status, an answer with no "{"..."}" span or with malformed JSON it
\* returns False and leaves the email row exactly as it was.
C19_FailureLeavesEmailUntouched ==
    [][/\ last_op'.op = "classify" => last_op'.n \in {0, 1}
       /\ \/ emails' = emails /\ last_op'.n = 0
          \/ \A id \in DOMAIN emails, response \in FailResponses,
                db_ok \in BOOLEAN :
                ~classify_single_email(id, response, db_ok)]_vars

\* a failed classification of an email that was classified earlier and then
\* reset by reprocess: the earlier values are still on the row
C19_Witness ==
    /\ last_op.op = "classify"
    /\ last_op.n = 0
    /\ \E id \in DOMAIN emails :
          /\ ~emails[id].ai_classified
          /\ emails[id].primary_category = "INVOICE"
          /\ emails[id].data_month = 13

\* C20: every classified email has a primary category of the ten fixed
\* values, a GST sub-category exactly when the primary category is GST, and
\* a reporting month that is null or in 1..12.
C20_ClassifiedValuesInVocabulary ==
    \A id \in DOMAIN emails :
        emails[id].ai_classified =>
            /\ emails[id].primary_category
                   \in CATEGORIES.PRIMARY \cup {"OTHER"}
            /\ IF emails[id].primary_category = "GST"
               THEN emails[id].sub_category \in CATEGORIES.GST_SUB
               ELSE emails[id].sub_category = NullStr
            /\ \/ emails[id].data_month = NullInt
               \/ emails[id].data_month \in 1..12

-----------------------------------------------------------------------------
(* Properties of StorageService's functions (checked under SpecStorage) *)

\* n as two decimal digits, for n in 0..99
Pad2(n) == str(n \div 10) \o str(n % 10)

\* the financial year of the specification
fiscalYear(month, year) ==
    IF month >= 4 THEN str(year) \o <<"-">> \o Pad2((year + 1) % 100)
    ELSE str(year - 1) \o <<"-">> \o Pad2(year % 100)

\* C26: for every month in 1..12 and every four-digit year,
\* get_financial_year(month, year) is "{year}-{(year+1) mod 100}" with two
\* digits when month >= 4 and "{year-1}-{year mod 100}" otherwise.
C26_FinancialYear ==
    (last_op.op = "get_financial_year" /\ last_op.n = 1)
        => last_op.out = fiscalYear(last_op.arg[1], last_op.arg[2])

\* C27: sanitize_company_name is idempotent, and what it returns is lower
\* case, has no blank, hyphen or punctuation and neither starts nor ends
\* with an underscore.
C27_SanitizeIdempotent ==
    (last_op.op = "sanitize_company_name" /\ last_op.n >= 1) =>
        /\ \A i \in 1..Len(last_op.out) : last_op.out[i] \in {"a", "1", "_"}
        /\ last_op.out # << >> =>
              /\ last_op.out[1] # "_"
              /\ last_op.out[Len(last_op.out)] # "_"
        /\ last_op.n = 2 => last_op.out = last_op.arg

\* C27 witness: the second call has returned, on a name that the first
\* call changed to a non-empty name with an underscore inside.
C27_Witness ==
    /\ last_op.op = "sanitize_company_name"
    /\ last_op.n = 2
    /\ last_op.out = <<"a", "_", "1">>

-----------------------------------------------------------------------------
(* Properties of the company router (checked under SpecCompany) *)

\* C28: after any sequence of company creations and updates, no address
\* is mapped to two different companies.
C28_AddressOfOneCompany ==
    \A ce1, ce2 \in client_emails :
        ce1.email = ce2.email => ce1.company_id = ce2.company_id

\* C28 witness: address a2 was taken from company 1 and given to the new
\* company 3, and an update asking for it for another company has just
\* been refused.
C28_Witness ==
    /\ last_op.op = "update_company"
    /\ last_op.n = 400
    /\ \E ce \in client_emails : ce.email = "a2" /\ ce.company_id = 3
    /\ \E ce \in client_emails : ce.email = "a1" /\ ce.company_id = 1

-----------------------------------------------------------------------------
(* Properties of one poll over several sources (checked under SpecPoll) *)

\* C24: a failure while listing or processing one address does not stop
\* the poll: after it, every message of every registered address whose
\* listing succeeded has its emails row, unless fetching that very message
\* failed.
C24_OtherSourcesIngested ==
    last_op.op = "poll" =>
        \A i \in 1..Len(get_registered_emails) :
            LET a == get_registered_emails[i] IN
            a \in last_op.arg[1] =>
                \A j \in 1..Len(mailbox[a]) :
                    mailbox[a][j] \notin last_op.arg[2]
                        => EmailExists(emails, mailbox[a][j])

\* C24 witness: listing a1, the first address, failed in the poll that has
\* just run, m1 is still not ingested, and m2 of a2 is.
C24_Witness ==
    /\ last_op.op = "poll"
    /\ mailbox["a1"] = <<"m1">>
    /\ "a1" \notin last_op.arg[1]
    /\ "a2" \in last_op.arg[1]
    /\ ~EmailExists(emails, "m1")
    /\ EmailExists(emails, "m2")

\* C34: the count a poll returns is the number of emails rows that poll
\* created; a listed message that was already ingested is not counted.
C34_CountIsNewRecords ==
    [][last_op'.op = "poll" =>
          last_op'.n = Cardinality(DOMAIN emails') - Cardinality(DOMAIN emails)
      ]_vars

-----------------------------------------------------------------------------
(* Compliance evidence: one stored email, classified by the poll that      *)
(* ingested it, with or without a company (_get_company_from_email         *)
(* returns None when its query fails or finds no row) and with or without  *)
(* a reporting period; the monthly and a manual reminder of company 1, the *)
(* tick, the passing day and the reprocess endpoint.                       *)

\* the email of message m as a completed _process_email leaves it
StoredEmails(id, m) ==
    {[classify_email(NewEmail(id, m, c), cls) EXCEPT !.is_processed = TRUE] :
        c \in {NullInt, 1}, cls \in ClsResults \ {NoResult}}

InitEvidence ==
    /\ InitRest
    /\ emails \in [{1} -> StoredEmails(1, "m1")]
    /\ next_email_id = 2
    /\ handled = [m \in MsgIds |-> IF m = "m1" THEN 1 ELSE 0]
    /\ mailbox = [a \in Addresses |-> IF a = "a1" THEN <<"m1">> ELSE << >>]
    /\ last_op = NoRun

NextEvidence ==
    \/ \E m \in Months : create_monthly_reminders(m)
    \/ \E m \in Months, d \in MaxDaysChoices :
          reminders_create_reminder(1, m, d)
    \/ process_daily_reminders
    \/ AdvanceDay
    \/ \E id \in DOMAIN emails : reprocess_email(id)

SpecEvidence == InitEvidence /\ [][NextEvidence]_vars

-----------------------------------------------------------------------------
(* Properties of the compliance evidence (checked under SpecEvidence) *)

\* C33: an email without a company, or without a reporting month or year,
\* never makes a reminder gst_received, whatever its category: a reminder
\* that is gst_received has an email of its company with both.
C33_IncompleteEmailIsNoEvidence ==
    \A id \in DOMAIN reminders :
        reminders[id].gst_received =>
            \E e \in DOMAIN emails :
                /\ emails[e].company_id # NullInt
                /\ emails[e].company_id = reminders[id].company_id
                /\ emails[e].data_month # NullInt
                /\ emails[e].data_year # NullInt

\* C33 witness: the only email is a GST email for June 2025 without a
\* company; the tick that has just run treated the reminder of June 2025 as
\* not compliant and sent its notification.
C33_Witness ==
    /\ last_op.op = "tick"
    /\ emails[1].company_id = NullInt
    /\ emails[1].primary_category = "GST"
    /\ emails[1].data_month = 6
    /\ \E id \in DOMAIN reminders :
          /\ ~reminders[id].gst_received
          /\ reminders[id].days_sent = 1
          /\ <<id, Today, 1>> \in dispatched

\* C38: reprocess(id) sets is_processed and ai_classified to false and
\* changes nothing else: category, sub-category, reporting period and
\* company of the email keep their values, no other table changes, and the
\* compliance check of every reminder answers as before.
C38_ReprocessKeepsEvidence ==
    [][\A e \in DOMAIN emails :
          reprocess_email(e) =>
            /\ DOMAIN emails' = DOMAIN emails
            /\ ~emails'[e].is_processed
            /\ ~emails'[e].ai_classified
            /\ \A j \in DOMAIN emails : \A f \in DOMAIN emails[j] :
                  (j # e \/ f \notin {"is_processed", "ai_classified"})
                      => emails'[j][f] = emails[j][f]
            /\ UNCHANGED <<companies, client_emails, reminders,
                           next_reminder_id, next_email_id, attachments,
                           files, mailbox, clock, dispatched>>
            /\ \A id \in DOMAIN reminders :
                  check_gst_received(reminders[id])'
                      = check_gst_received(reminders[id])
      ]_vars

\* C38 witness: the email has been reprocessed and is still the evidence
\* the next tick finds for a pending reminder.
C38_Witness ==
    /\ ~emails[1].is_processed
    /\ ~emails[1].ai_classified
    /\ \E id \in DOMAIN reminders :
          /\ IsPending(reminders[id])
          /\ check_gst_received(reminders[id])

-----------------------------------------------------------------------------
(* The requests of routers/reminders.py on the reminders of company 1,     *)
(* with the tick over two days and the client's mail: a reminder with      *)
(* max_days_to_send = 1 is exhausted by the first send.                    *)

NextControl ==
    \/ \E m \in Months, d \in MaxDaysChoices :
          reminders_create_reminder(1, m, d)
    \/ process_daily_reminders
    \/ AdvanceDay
    \/ \E id \in DOMAIN reminders, u \in ReminderUpdates :
          reminders_update_reminder(id, u)
    \/ \E id \in DOMAIN reminders : stop(id)
    \/ \E id \in DOMAIN reminders : restart(id)
    \/ \E id \in DOMAIN reminders : delete_reminder(id)
    \/ Arrive("a1", "m1")
    \/ fetch_emails_job

SpecControl == Init /\ [][NextControl]_vars

-----------------------------------------------------------------------------
(* Properties of the manual controls (checked under SpecControl) *)

\* active with the escalations used up: the state restart leaves an
\* exhausted Reminder in
ActiveExhausted(r) == r.is_active /\ r.days_sent >= r.max_days_to_send

\* C39 as stated: while sent_count >= max_escalations, a restarted Reminder
\* gets no dispatch and no step makes it inactive.
C39_RestartedExhaustedStaysActive ==
    [][\A id \in DOMAIN reminders \cap DOMAIN reminders' :
          ActiveExhausted(reminders[id]) =>
              /\ DispatchedFor(id)' = DispatchedFor(id)
              /\ reminders'[id].is_active
      ]_vars

\* C39 amended: while sent_count >= max_escalations, a restarted Reminder is
\* left unchanged by every tick and gets no dispatch; the only step that
\* makes it inactive is an update request with is_active = false.
C39_RestartedExhaustedIgnoredByTick ==
    [][\A id \in DOMAIN reminders \cap DOMAIN reminders' :
          ActiveExhausted(reminders[id]) =>
              /\ DispatchedFor(id)' = DispatchedFor(id)
              /\ process_daily_reminders => reminders'[id] = reminders[id]
              /\ ~reminders'[id].is_active =>
                    reminders_update_reminder(id,
                        [Unset EXCEPT !.is_active = {FALSE}])
      ]_vars

\* C39 witness: a Reminder exhausted by its only send on an earlier day and
\* restarted; the tick of today has run and has sent nothing for it.
C39_Witness ==
    /\ last_op.op = "tick"
    /\ \E id \in DOMAIN reminders :
          /\ ActiveExhausted(reminders[id])
          /\ ~reminders[id].manual_stop
          /\ ~reminders[id].gst_received
          /\ reminders[id].last_sent # NoDate
          /\ DateLT(reminders[id].last_sent, Today)
          /\ \A e \in DispatchedFor(id) : e[2] # Today

\* a Reminder the tick selects
Candidate(r) ==
    /\ r.is_active
    /\ ~r.manual_stop
    /\ r.days_sent < r.max_days_to_send
    /\ DateLE(r.expected_by_date, Today)

\* C40: gst_received starts false, is set only by a tick, only on a
\* Reminder that is active, not stopped, not exhausted and due, and is
\* never set back to false.
C40_ComplianceSetOnlyByTickOnCandidate ==
    [][/\ \A id \in DOMAIN reminders' \ DOMAIN reminders :
             ~reminders'[id].gst_received
       /\ \A id \in DOMAIN reminders \cap DOMAIN reminders' :
             reminders'[id].gst_received # reminders[id].gst_received =>
                /\ reminders'[id].gst_received
                /\ last_op'.op = "tick"
                /\ Candidate(reminders[id])
      ]_vars

\* C40 witness: the GST email of the month is stored, the Reminder is
\* stopped, and the tick that has just run has not marked it.
C40_Witness ==
    /\ last_op.op = "tick"
    /\ \E id \in DOMAIN reminders :
          /\ reminders[id].manual_stop
          /\ reminders[id].is_active
          /\ check_gst_received(reminders[id])
          /\ ~reminders[id].gst_received

-----------------------------------------------------------------------------
(* Monthly creation over several active companies, step by step, with a    *)
(* statement that fails: a company is added through the API, and the       *)
(* "existing" query of one turn of the loop raises.                        *)

\* the elements of a sequence
Range(s) == {s[i] : i \in 1..Len(s)}

\* one turn of the loop whose "existing" query raises: the exception leaves
\* the loop and the session block, the handler at the end of
\* create_monthly_reminders logs it, and nothing was committed. last_op.arg:
\* the company of the turn and the other companies the run had still to
\* store
monthly_raise(p) ==
    /\ creators[p].pc = "loop"
    /\ creators[p].todo # <<>>
    /\ last_op' = [NoRun EXCEPT
            !.op = "monthly_failed",
            !.month = creators[p].month,
            !.arg = <<Head(creators[p].todo),
                      Range(Tail(creators[p].todo))
                          \cup Range(creators[p].pending)>>]
    /\ creators' = [creators EXCEPT ![p] = IdleCreator]
    /\ UNCHANGED <<companies, client_emails, reminders, next_reminder_id,
                   clock, dispatched, pollers, handled, tickers>>
    /\ UNCHANGED ingestVars

NextBatch ==
    \/ \E name \in NewNames : create_company(name, NoList)
    \/ \E p \in CreatorIds, m \in Months : monthly_select_companies(p, m)
    \/ \E p \in CreatorIds : monthly_check_existing(p)
    \/ \E p \in CreatorIds : monthly_raise(p)
    \/ \E p \in CreatorIds : monthly_commit(p)

SpecBatch == Init /\ [][NextBatch]_vars

-----------------------------------------------------------------------------
(* Properties of the monthly batch (checked under SpecBatch) *)

\* C35: when creating the Reminder of one company fails in a monthly run,
\* the Reminders of the other companies of the run are still created and
\* stored.
C35_FailureDoesNotAbortBatch ==
    last_op.op = "monthly_failed" =>
        \A c \in last_op.arg[2] :
            MonthlyExisting(reminders, c, last_op.month)

-----------------------------------------------------------------------------
(* process_daily_reminders step by step: the query for the pending rows,   *)
(* every _process_reminder and the commit are separate awaits. The         *)
(* scheduler starts the process_reminders job through add_job with the     *)
(* default max_instances, so a trigger that finds an instance running is   *)
(* skipped. A statement of _process_reminder may raise.                    *)

max_instances == 1

\* a scheduler that starts the job however many instances run
job_skipped_Never(running) == FALSE

\* the executor refuses a job that has max_instances instances running
job_skipped(running) == running >= max_instances

RunningTickers == {p \in TickerIds : tickers[p].pc # "idle"}

tickFrame ==
    /\ UNCHANGED <<companies, client_emails, next_reminder_id, clock,
                   pollers, creators, handled>>
    /\ UNCHANGED ingestVars

\* a trigger of the process_reminders job: skipped, or a new session loads
\* the pending rows
tick_start(p) ==
    /\ tickers[p].pc = "idle"
    /\ IF job_skipped(Cardinality(RunningTickers))
       THEN /\ last_op' = [NoRun EXCEPT !.op = "tick_skipped"]
            /\ UNCHANGED tickers
       ELSE /\ last_op' = NoRun
            /\ tickers' = [tickers EXCEPT ![p] =
                  [pc |-> "loop",
                   todo |-> get_pending_reminders,
                   loaded |-> [id \in get_pending_reminders |-> reminders[id]],
                   rows |-> [id \in get_pending_reminders |-> reminders[id]],
                   done |-> {}, failed |-> {}, sent |-> @.sent]]
    /\ UNCHANGED <<reminders, dispatched>>
    /\ tickFrame

\* the loop after an exception that left the loop of process_daily_reminders
after_raise_EndsLoop(t, id) ==
    [t EXCEPT !.todo = {}, !.failed = @ \cup {id}]

\* the loop after the except clause of _process_reminder caught an exception
after_raise(t, id) ==
    [t EXCEPT !.todo = @ \ {id}, !.failed = @ \cup {id}]

\* _process_reminder on one loaded row; raises: its first statement, the
\* query of _check_gst_received, raises
tick_process(p, id, smtp_ok, raises) ==
    LET t == tickers[p]
        r == t.rows[id]
    IN  /\ t.pc = "loop"
        /\ id \in t.todo
        /\ IF raises
           THEN /\ tickers' = [tickers EXCEPT ![p] = after_raise(t, id)]
                /\ UNCHANGED dispatched
           ELSE /\ tickers' = [tickers EXCEPT ![p] =
                      [t EXCEPT !.todo = @ \ {id},
                                !.done = @ \cup {id},
                                !.rows[id] = process_reminder(r, smtp_ok),
                                !.sent = IF Sends(r, smtp_ok)
                                         THEN Append(@, <<id, Today>>)
                                         ELSE @]]
                /\ dispatched' =
                      IF Sends(r, smtp_ok)
                      THEN dispatched \cup {<<id, Today, r.days_sent + 1>>}
                      ELSE dispatched
        /\ UNCHANGED <<reminders, last_op>>
        /\ tickFrame

\* the UPDATE the commit flushes for one row: the attributes the session
\* changed
Flush(old, loaded, new) ==
    [f \in DOMAIN old |-> IF new[f] # loaded[f] THEN new[f] ELSE old[f]]

\* await db.commit() of process_daily_reminders; last_op.arg: the rows
\* whose processing raised
tick_commit(p) ==
    LET t == tickers[p] IN
    /\ t.pc = "loop"
    /\ t.todo = {}
    /\ reminders' = [id \in DOMAIN reminders |->
            IF id \in DOMAIN t.rows
            THEN Flush(reminders[id], t.loaded[id], t.rows[id])
            ELSE reminders[id]]
    /\ tickers' = [tickers EXCEPT ![p] = [IdleTicker EXCEPT !.sent = t.sent]]
    /\ last_op' = [TickRun EXCEPT !.arg = <<t.failed>>]
    /\ UNCHANGED dispatched
    /\ tickFrame

NextTick ==
    \/ \E m \in Months, d \in MaxDaysChoices :
          reminders_create_reminder(1, m, d)
    \/ \E p \in TickerIds : tick_start(p)
    \/ \E p \in TickerIds, id \in DOMAIN reminders, smtp_ok \in BOOLEAN,
          raises \in BOOLEAN : tick_process(p, id, smtp_ok, raises)
    \/ \E p \in TickerIds : tick_commit(p)
    \/ AdvanceDay
    \/ Arrive("a1", "m1")
    \/ fetch_emails_job

SpecTick == Init /\ [][NextTick]_vars

-----------------------------------------------------------------------------
(* Properties of the stepwise tick (checked under SpecTick) *)

\* the notifications the instances have dispatched for Reminder id
SentBy(p, id) == {i \in 1..Len(tickers[p].sent) : tickers[p].sent[i][1] = id}

\* C31: a tick triggered while another is running never leads to two
\* dispatches for one Reminder on one day, and once no tick is running
\* sent_count is the number of dispatches made for the Reminder.
C31_OverlapNeitherDoublesNorLoses ==
    /\ \A p, q \in TickerIds :
          \A i \in 1..Len(tickers[p].sent), j \in 1..Len(tickers[q].sent) :
              (p # q \/ i # j) => tickers[p].sent[i] # tickers[q].sent[j]
    /\ RunningTickers = {} =>
          \A id \in DOMAIN reminders :
              reminders[id].days_sent
                  = Cardinality(SentBy(1, id)) + Cardinality(SentBy(2, id))

\* C31 witness: a trigger has just been skipped because an instance is in
\* its loop, and that instance has dispatched a notification today.
C31_Witness ==
    /\ last_op.op = "tick_skipped"
    /\ \E p \in TickerIds :
          /\ tickers[p].pc = "loop"
          /\ \E id \in tickers[p].done :
                /\ tickers[p].rows[id].days_sent = 1
                /\ tickers[p].sent[Len(tickers[p].sent)] = <<id, Today>>

\* C36: an error raised while one candidate is processed is confined to
\* it: at the commit every other row the tick loaded has been processed,
\* and the commit stores the fields processing gave it.
C36_ErrorConfinedToOneReminder ==
    [][\A p \in TickerIds :
          tick_commit(p) =>
            /\ tickers[p].done = DOMAIN tickers[p].loaded \ tickers[p].failed
            /\ \A id \in tickers[p].done :
                  reminders'[id] = tickers[p].rows[id]
      ]_vars

\* C36 witness: in the tick that has just committed, processing one
\* Reminder raised and left it untouched, and another Reminder got its
\* first notification, which is stored.
C36_Witness ==
    /\ last_op.op = "tick"
    /\ \E id, other \in DOMAIN reminders :
          /\ id \in last_op.arg[1]
          /\ reminders[id].days_sent = 0
          /\ other \notin last_op.arg[1]
          /\ reminders[other].days_sent = 1
          /\ reminders[other].last_sent = Today
          /\ <<other, Today, 1>> \in dispatched

-----------------------------------------------------------------------------
(* Fair daily ticks: the reminders exist on the first day (the monthly one *)
(* of company 1 and a manual one of company 2, which has no recipient      *)
(* address); the hourly tick runs every day until SMTP has accepted what   *)
(* it has to send, and only then the day ends. The working week is long    *)
(* enough for five sends.                                                  *)

\* a tick in which SMTP accepts every message
process_reminders_delivered ==
    /\ process_daily_reminders
    /\ \A id \in get_pending_reminders :
          reminders'[id] = process_reminder(reminders[id], TRUE)

\* the day ends once the tick has nothing left to do on it
DayEnds ==
    /\ \A id \in get_pending_reminders :
          process_reminder(reminders[id], TRUE) = reminders[id]
    /\ AdvanceDayUpTo(MaxTickDay)

NextFair ==
    \/ clock = 0 /\ \E m \in Months : create_monthly_reminders(m)
    \/ clock = 0 /\ \E m \in Months :
                        reminders_create_reminder(2, m, DefaultMaxDays)
    \/ process_daily_reminders
    \/ DayEnds
    \/ Arrive("a1", "m1")
    \/ fetch_emails_job

SpecFair ==
    /\ Init
    /\ [][NextFair]_vars
    /\ WF_vars(process_reminders_delivered)
    /\ WF_vars(DayEnds)

-----------------------------------------------------------------------------
(* Properties of the fair ticks (checked under SpecFair) *)

\* active, not stopped and past expected_by_date
Due(id) ==
    /\ id \in DOMAIN reminders
    /\ reminders[id].is_active
    /\ ~reminders[id].manual_stop
    /\ DateLE(reminders[id].expected_by_date, Today)

\* inactive, compliant or exhausted
Resolved(id) ==
    /\ id \in DOMAIN reminders
    /\ ~reminders[id].is_active
    /\ \/ reminders[id].gst_received
       \/ reminders[id].days_sent >= reminders[id].max_days_to_send

\* C32: under fair daily ticks every Reminder that is active, not stopped
\* and past its expected_by_date eventually becomes inactive, compliant or
\* exhausted.
C32_DueEventuallyResolved ==
    \A id \in 1..MaxReminders : Due(id) ~> Resolved(id)

\* the same for the Reminders of a company with an active recipient address
DeliverableEventuallyResolved ==
    \A id \in 1..MaxReminders :
        (Due(id) /\ send_gst_reminder(reminders[id].company_id, TRUE))
            ~> Resolved(id)

-----------------------------------------------------------------------------
(* GmailService._extract_body on the payload of messages().get: a leaf     *)
(* part has a mimeType and a body, with the base64url data or, for an      *)
(* attachment, an attachmentId; a multipart part has parts. Nesting up to  *)
(* MaxDepth levels of multiparts, each of up to MaxParts parts.            *)

MaxDepth == 2
MaxParts == 2

\* base64.urlsafe_b64decode(data).decode('utf-8', errors='ignore')
b64decode(data) ==
    IF data = "eA==" THEN "x" ELSE IF data = "eQ==" THEN "y" ELSE ""

Leaves ==
    {[mimeType |-> "text/plain", body |-> [data |-> "eA=="]],
     [mimeType |-> "text/plain", body |-> [data |-> "eQ=="]],
     [mimeType |-> "text/plain", body |-> [attachmentId |-> "att"]],
     [mimeType |-> "text/html", body |-> [data |-> "eA=="]]}

\* the payloads with at most depth levels of multiparts
RECURSIVE Payloads(_)
Payloads(depth) ==
    IF depth = 0 THEN Leaves
    ELSE LET below == Payloads(depth - 1) IN
         below \cup
         {[mimeType |-> "multipart/mixed", body |-> [size |-> 0],
           parts |-> ps] : ps \in UNION {[1..n -> below] : n \in 1..MaxParts}}

\* the loop over payload['parts']
RECURSIVE first_plain_part(_)
first_plain_part(parts) ==
    IF parts = << >> THEN ""
    ELSE IF /\ Head(parts).mimeType = "text/plain"
            /\ "data" \in DOMAIN Head(parts).body
    THEN b64decode(Head(parts).body.data)
    ELSE first_plain_part(Tail(parts))

\* GmailService._extract_body
extract_body(payload) ==
    IF "parts" \in DOMAIN payload
    THEN first_plain_part(payload.parts)
    ELSE IF /\ payload.mimeType = "text/plain"
            /\ "data" \in DOMAIN payload.body
    THEN b64decode(payload.body.data)
    ELSE ""

bodyFrame ==
    /\ UNCHANGED <<companies, client_emails, reminders, next_reminder_id,
                   clock, dispatched>>
    /\ UNCHANGED ingestVars
    /\ UNCHANGED procVars

\* _process_email: body = self._extract_body(message['payload'])
call_extract_body ==
    /\ last_op.op = "extract_body"
    /\ last_op.n = 0
    /\ last_op' = [last_op EXCEPT !.n = 1, !.out = extract_body(last_op.arg)]
    /\ bodyFrame

InitBody ==
    /\ InitTables
    /\ mailbox = [a \in Addresses |-> << >>]
    /\ \E payload \in Payloads(MaxDepth) :
          last_op = [NoRun EXCEPT !.op = "extract_body", !.arg = payload]

NextBody == call_extract_body

SpecBody == InitBody /\ [][NextBody]_vars

-----------------------------------------------------------------------------
(* Properties of the body extraction (checked under SpecBody) *)

\* a part without parts
IsLeaf(part) == "parts" \notin DOMAIN part

\* the content of a text/plain leaf
Content(leaf) ==
    IF "data" \in DOMAIN leaf.body THEN b64decode(leaf.body.data) ELSE ""

\* breadth-first search: the content of the first text/plain leaf of the
\* queue of parts, "" when there is none
RECURSIVE BreadthFirst(_)
BreadthFirst(queue) ==
    IF queue = << >> THEN ""
    ELSE LET part == Head(queue) IN
         IF IsLeaf(part)
         THEN IF part.mimeType = "text/plain" THEN Content(part)
              ELSE BreadthFirst(Tail(queue))
         ELSE BreadthFirst(Tail(queue) \o part.parts)

\* C37: the body stored for a message is the content of the first
\* text/plain leaf a breadth-first search of its part tree finds, at any
\* depth.
C37_BodyIsFirstPlainLeaf ==
    (last_op.op = "extract_body" /\ last_op.n = 1) =>
        last_op.out = BreadthFirst(<<last_op.arg>>)

=========================================================================
